---- MODULE Spec2Model ----
(***************************************************************************)
(* A model of the kilo text editor (src/main.go): the key decoder, the     *)
(* buffer of rows with their rendered form and highlights, the cursor and  *)
(* scroll state, incremental search and the quit confirmation.             *)
(*                                                                         *)
(* Characters and keys are integers (code points), as in the source.       *)
(* Indices are 0-based as in the source; a TLA+ sequence s holds the Go    *)
(* element s[i] at position i+1.                                           *)
(***************************************************************************)
EXTENDS Integers, Sequences, FiniteSets, TLC

\* ------------------------------------------------------------------------
\* Defines
\* ------------------------------------------------------------------------
KILO_TAB_STOP == 8
KILO_QUIT_TIMES == 3

BACKSPACE == 127
\* ARROW_LEFT = 1000 + iota is the second line of the const block: iota = 1.
ARROW_LEFT == 1001
ARROW_RIGHT == 1002
ARROW_UP == 1003
ARROW_DOWN == 1004
DEL_KEY == 1005
HOME_KEY == 1006
END_KEY == 1007
PAGE_UP == 1008
PAGE_DOWN == 1009

HL_NORMAL == 0
HL_NUMBER == 1
HL_MATCH == 2

\* The foreground colours.
RED == 31
BLUE == 34
WHITE == 37
DEFAULT == 39

ESC == 27

\* Characters the model names.
NUL == 0
RuneError == 65533
TAB == 9
LF == 10
CR == 13
SPACE == 32
LBRACKET == 91
TILDE == 126
CHAR_O == 79
CHAR_A == 65
CHAR_B == 66
CHAR_C == 67
CHAR_D == 68
CHAR_F == 70
CHAR_H == 72
CHAR_q == 113
DIGIT_0 == 48
DIGIT_1 == 49
DIGIT_9 == 57
\* A lower-case letter is 32 above its upper-case letter.
CHAR_a == CHAR_A + 32
\* U+00E9, a character of two bytes in UTF-8.
EACUTE == 233

\* int(k) & 0x1f for the letters the dispatch table uses.
CTRL_KEY(k) == k % 32

CTRL_F == CTRL_KEY(102)
CTRL_H == CTRL_KEY(104)
CTRL_L == CTRL_KEY(108)
CTRL_Q == CTRL_KEY(CHAR_q)

MIN(a, b) == IF a < b THEN a ELSE b
MAX(a, b) == IF a > b THEN a ELSE b

\* ------------------------------------------------------------------------
\* Bounds of the model
\* ------------------------------------------------------------------------
\* Editing keys (character, Enter, Backspace, Delete) dispatched in one run.
MaxEdits == 2
\* Characters in a search query.
MaxQuery == 1
\* Search sessions (Ctrl-F) started in one run.
MaxFinds == 1

\* Characters in a file name typed into the Save-as prompt.
MaxName == 1
\* Keys typed at the terminal in one run of the key reader.
MaxTyped == 3

\* Buffer operations called directly in one run.
MaxRowOps == 2
\* Characters in a line the buffer operations start from.
MaxLineLen == 2

\* The character the model types into the buffer and into the search prompt.
Chars == {DIGIT_1}

\* ------------------------------------------------------------------------
\* Helpers on sequences (Go slices and strings)
\* ------------------------------------------------------------------------
\* s[lo:hi] of Go, 0-based, hi exclusive.
Slice(s, lo, hi) == SubSeq(s, lo + 1, hi)

\* make([]T, n): n zero values.
Zeros(n) == [i \in 1..n |-> 0]

\* slices.Insert(s, at, v)
slicesInsert(s, at, v) == Slice(s, 0, at) \o <<v>> \o Slice(s, at, Len(s))

\* append(s[:i], s[j:]...): the elements of the result of slices.Delete(s, i, j).
slicesDeleteResult(s, i, j) == Slice(s, 0, i) \o Slice(s, j, Len(s))

\* strings.Index(s, sub): the 0-based index of the first occurrence, or -1.
HasPrefixAt(s, sub, i) ==
    /\ i + Len(sub) <= Len(s)
    /\ \A k \in 1..Len(sub) : s[i + k] = sub[k]

stringsIndex(s, sub) ==
    LET hits == {i \in 0..Len(s) : HasPrefixAt(s, sub, i)}
    IN  IF hits = {} THEN -1 ELSE CHOOSE i \in hits : \A j \in hits : i <= j

\* unicode.IsDigit, on the characters of the model (ASCII).
IsDigit(c) == c >= DIGIT_0 /\ c <= DIGIT_9

\* unicode.IsControl, on the characters of the model (ASCII and the key codes).
IsControl(c) == c < SPACE \/ (c >= BACKSPACE /\ c < 160)

\* ------------------------------------------------------------------------
\* Strings and runes
\*
\* A Go string is a sequence of bytes, the UTF-8 encoding of its characters;
\* row.content is a string, and len, s[i:j] and row.Len() count bytes.
\* []rune(s) and "range s" decode it, and string(r) encodes runes.  The model
\* decodes and encodes the characters below U+10000.
\* ------------------------------------------------------------------------
\* A continuation byte 10xxxxxx.
IsCont(b) == b >= 128 /\ b < 192

\* The number of bytes the decoder consumes at position i (1-based) of s: the
\* width of a well-formed character, or 1 for a byte that starts none.
RuneWidth(s, i) ==
    LET b == s[i]
    IN  IF b >= 194 /\ b < 224 /\ i + 1 <= Len(s) /\ IsCont(s[i + 1]) THEN 2
        ELSE IF b >= 224 /\ b < 240 /\ i + 2 <= Len(s) /\ IsCont(s[i + 1]) /\ IsCont(s[i + 2])
                /\ (b = 224 => s[i + 1] >= 160) /\ (b = 237 => s[i + 1] < 160) THEN 3
        ELSE 1

\* The rune decoded at position i of s; RuneError for a byte that starts no
\* character.
RuneAt(s, i) ==
    LET b == s[i]
        w == RuneWidth(s, i)
    IN  IF w = 2 THEN (b % 32) * 64 + (s[i + 1] % 64)
        ELSE IF w = 3 THEN (b % 16) * 4096 + (s[i + 1] % 64) * 64 + (s[i + 2] % 64)
        ELSE IF b < 128 THEN b
        ELSE RuneError

\* []rune(s), and the characters "for _, char := range s" goes through.
RECURSIVE RunesFrom(_, _)
RunesFrom(s, i) ==
    IF i > Len(s) THEN <<>>
    ELSE <<RuneAt(s, i)>> \o RunesFrom(s, i + RuneWidth(s, i))

Runes(s) == RunesFrom(s, 1)

\* string(r) for one rune r.
EncodeRune(r) ==
    IF r < 128 THEN <<r>>
    ELSE IF r < 2048 THEN <<192 + (r \div 64), 128 + (r % 64)>>
    ELSE <<224 + (r \div 4096), 128 + ((r \div 64) % 64), 128 + (r % 64)>>

\* string(rs) for a slice of runes.
RECURSIVE StringOf(_)
StringOf(rs) ==
    IF rs = <<>> THEN <<>> ELSE EncodeRune(Head(rs)) \o StringOf(Tail(rs))

\* ------------------------------------------------------------------------
\* Syntax highlighting and row operations
\* ------------------------------------------------------------------------
\* A row as editorInsertRow creates it: editorRow{content: rowContent}.
NewRow(rowContent) == [content |-> rowContent, render |-> <<>>, highlights |-> <<>>]

\* The zero value of editorRow.
ZeroRow == NewRow(<<>>)

editorUpdateSyntax(render) ==
    [i \in 1..Len(render) |-> IF IsDigit(render[i]) THEN HL_NUMBER ELSE HL_NORMAL]

\* One more step of the tab rule shared by editorRowCxToRx and editorRowRxToCx.
NextRx(rx, char) ==
    IF char = TAB THEN rx + (KILO_TAB_STOP - 1) - (rx % KILO_TAB_STOP) + 1 ELSE rx + 1

RECURSIVE CxToRxLoop(_, _, _)
CxToRxLoop(s, i, rx) ==
    IF i > Len(s) THEN rx ELSE CxToRxLoop(s, i + 1, NextRx(rx, s[i]))

\* Defined for 0 <= cx <= Len(content); the source ranges over the characters
\* of the bytes row.content[:cx].
editorRowCxToRx(row, cx) == CxToRxLoop(Runes(Slice(row.content, 0, cx)), 1, 0)

RECURSIVE RxToCxLoop(_, _, _, _)
RxToCxLoop(s, cx, currentRx, rx) ==
    IF cx >= Len(s) THEN cx
    ELSE LET nrx == NextRx(currentRx, s[cx + 1])
         IN  IF nrx > rx THEN cx ELSE RxToCxLoop(s, cx + 1, nrx, rx)

\* cx counts the characters the loop has gone through.
editorRowRxToCx(row, rx) == RxToCxLoop(Runes(row.content), 0, 0, rx)

\* The spaces a tab writes when the render index is idx: one, then up to the
\* next multiple of the tab stop.
RECURSIVE TabFill(_)
TabFill(acc) ==
    IF Len(acc) % KILO_TAB_STOP # 0 THEN TabFill(Append(acc, SPACE)) ELSE acc

RECURSIVE RenderLoop(_, _, _)
RenderLoop(s, i, acc) ==
    IF i > Len(s) THEN acc
    ELSE IF s[i] = TAB THEN RenderLoop(s, i + 1, TabFill(Append(acc, SPACE)))
    ELSE RenderLoop(s, i + 1, Append(acc, s[i]))

CountTabs(s) == Cardinality({i \in 1..Len(s) : s[i] = TAB})

\* The render slice is allocated with room for every byte of the content,
\* every tab at full width, and a terminator; what the copy loop does not
\* write stays zero.
editorUpdateRow(row) ==
    LET chars == Runes(row.content)
        size == Len(row.content) + CountTabs(chars) * (KILO_TAB_STOP - 1) + 1
        written == RenderLoop(chars, 1, <<>>)
        render == written \o Zeros(size - Len(written))
    IN  [content |-> row.content, render |-> render,
         highlights |-> editorUpdateSyntax(render)]

\* ------------------------------------------------------------------------
\* The editor state (editorConfig) and the operations on it.
\*
\* The operations are written as operators from a config record to a config
\* record.  The field fault is not a field of editorConfig: it records that
\* the Go runtime panicked (an index or slice bound out of range); once set,
\* the remaining operations of the handler do nothing.
\* ------------------------------------------------------------------------
Fault(c) == [c EXCEPT !.fault = TRUE]

\* Whether index i (0-based) is within the stored rows.
RowInRange(c, i) == i >= 0 /\ i < Len(c.rows)

\* config.rows[i]
RowAt(c, i) == c.rows[i + 1]

\* The row re-rendered by editorInsertRow after the insertion.
InsertRowUpdateIndex(c, at) == c.numrows

editorInsertRow(c, at, rowContent) ==
    IF c.fault THEN c
    ELSE IF at < 0 \/ at > c.numrows THEN c
    ELSE LET inserted == slicesInsert(c.rows, at, NewRow(rowContent))
             u == InsertRowUpdateIndex(c, at) + 1
         IN  [c EXCEPT !.rows = [inserted EXCEPT ![u] = editorUpdateRow(inserted[u])],
                       !.numrows = c.numrows + 1,
                       !.dirty = TRUE]

\* row is &config.rows[ri].
editorRowInsertChar(c, ri, at, char) ==
    IF c.fault THEN c
    ELSE IF ~RowInRange(c, ri) THEN Fault(c)
    ELSE LET row == RowAt(c, ri)
             pos == IF at < 0 \/ at > Len(row.content) THEN Len(row.content) ELSE at
             chars == Runes(row.content)
         IN  IF pos > Len(chars) THEN Fault(c)
             ELSE [c EXCEPT !.rows[ri + 1] =
                               editorUpdateRow([row EXCEPT !.content =
                                                   StringOf(slicesInsert(chars, pos, char))]),
                            !.dirty = TRUE]

editorRowAppendString(c, ri, s) ==
    IF c.fault THEN c
    ELSE IF ~RowInRange(c, ri) THEN Fault(c)
    ELSE LET row == RowAt(c, ri)
         IN  [c EXCEPT !.rows[ri + 1] = editorUpdateRow([row EXCEPT !.content = row.content \o s]),
                       !.dirty = TRUE]

\* slices.Delete(s, at, at+1) panics when at+1 exceeds the length of s, the
\* characters of the content.
editorRowDelChar(c, ri, at) ==
    IF c.fault THEN c
    ELSE IF ~RowInRange(c, ri) THEN Fault(c)
    ELSE LET row == RowAt(c, ri)
             chars == Runes(row.content)
         IN  IF at < 0 \/ at > Len(row.content) THEN c
             ELSE IF at + 1 > Len(chars) THEN Fault(c)
             ELSE [c EXCEPT !.rows[ri + 1] =
                               editorUpdateRow([row EXCEPT !.content =
                                                   StringOf(slicesDeleteResult(chars, at, at + 1))]),
                            !.dirty = TRUE]

\* The stored rows when nothing is shifted down.
DelRowStoredKeepsAll(rows, at, zeroed) == rows

\* The stored rows after slices.Delete(config.rows, at, at+1), whose result the
\* source discards: config.rows keeps its length.  The elements before the end
\* are shifted down; the last element is left as it was, or zeroed, depending
\* on the version of golang.org/x/exp/slices the program is built with
\* (zeroed says which).
DelRowStored(rows, at, zeroed) ==
    slicesDeleteResult(rows, at, at + 1) \o <<IF zeroed THEN ZeroRow ELSE rows[Len(rows)]>>

editorDelRow(c, at, zeroed) ==
    IF c.fault THEN c
    ELSE IF at < 0 \/ at >= c.numrows THEN c
    ELSE [c EXCEPT !.rows = DelRowStored(c.rows, at, zeroed),
                   !.numrows = c.numrows - 1,
                   !.dirty = TRUE]

\* ------------------------------------------------------------------------
\* Editor operations
\* ------------------------------------------------------------------------
editorInsertChar(c, char) ==
    LET c1 == IF c.cy = c.numrows THEN editorInsertRow(c, c.numrows, <<>>) ELSE c
        c2 == editorRowInsertChar(c1, c1.cy, c1.cx, char)
    IN  IF c2.fault THEN c2 ELSE [c2 EXCEPT !.cx = c2.cx + 1]

editorInsertNewline(c) ==
    LET c1 ==
            IF c.cx = 0 THEN editorInsertRow(c, c.cy, <<>>)
            ELSE IF ~RowInRange(c, c.cy) THEN Fault(c)
            ELSE IF c.cx > Len(RowAt(c, c.cy).content) THEN Fault(c)
            ELSE LET rowContent == Slice(RowAt(c, c.cy).content, c.cx, Len(RowAt(c, c.cy).content))
                     ci == editorInsertRow(c, c.cy + 1, rowContent)
                     row == RowAt(ci, ci.cy)
                 IN  [ci EXCEPT !.rows[ci.cy + 1] =
                                   editorUpdateRow([row EXCEPT !.content = Slice(row.content, 0, ci.cx)])]
    IN  IF c1.fault THEN c1 ELSE [c1 EXCEPT !.cy = c1.cy + 1, !.cx = 0]

editorDelChar(c, zeroed) ==
    IF c.fault THEN c
    ELSE IF c.cy = c.numrows THEN c
    ELSE IF c.cx = 0 /\ c.cy = 0 THEN c
    ELSE IF ~RowInRange(c, c.cy) THEN Fault(c)
    ELSE IF c.cx > 0
         THEN LET c1 == editorRowDelChar(c, c.cy, c.cx - 1)
              IN  IF c1.fault THEN c1 ELSE [c1 EXCEPT !.cx = c1.cx - 1]
         ELSE LET row == RowAt(c, c.cy)
                  c1 == [c EXCEPT !.cx = Len(RowAt(c, c.cy - 1).content)]
                  c2 == editorRowAppendString(c1, c1.cy - 1, row.content)
                  c3 == editorDelRow(c2, c2.cy, zeroed)
              IN  IF c3.fault THEN c3 ELSE [c3 EXCEPT !.cy = c3.cy - 1]

\* ------------------------------------------------------------------------
\* Output: scrolling
\* ------------------------------------------------------------------------
\* A scroll rule that stops one row short when the cursor is below the window;
\* the visibility of the cursor tells it from the rule of the code.
ScrollRowOffsetShort(cy, rowOffset, screenrows) ==
    IF cy < rowOffset THEN cy
    ELSE IF cy >= rowOffset + screenrows THEN cy - screenrows
    ELSE rowOffset

ScrollRowOffset(cy, rowOffset, screenrows) ==
    LET above == IF cy < rowOffset THEN cy ELSE rowOffset
    IN  IF cy >= above + screenrows THEN cy - screenrows + 1 ELSE above

ScrollColOffset(rx, colOffset, screencols) ==
    LET left == IF rx < colOffset THEN rx ELSE colOffset
    IN  IF rx >= left + screencols THEN rx - screencols + 1 ELSE left

editorScroll(c) ==
    IF c.fault THEN c
    ELSE IF c.cy < c.numrows /\ (~RowInRange(c, c.cy) \/ c.cx < 0
                                  \/ c.cx > Len(RowAt(c, c.cy).content))
    THEN Fault(c)
    ELSE LET rx == IF c.cy < c.numrows THEN editorRowCxToRx(RowAt(c, c.cy), c.cx) ELSE 0
         IN  [c EXCEPT !.rx = rx,
                       !.rowOffset = ScrollRowOffset(c.cy, c.rowOffset, c.screenrows),
                       !.colOffset = ScrollColOffset(rx, c.colOffset, c.screencols)]

\* ------------------------------------------------------------------------
\* Output: drawing the rows
\*
\* What editorDrawRows writes for a row of the file is a sequence of cells
\* <<character, colour>>: the character and the foreground colour in force
\* when it is written.
\* ------------------------------------------------------------------------
editorSyntaxToColor(syntax) ==
    IF syntax = HL_NUMBER THEN RED
    ELSE IF syntax = HL_MATCH THEN BLUE
    ELSE WHITE

\* The colour the loop has set when it writes a character tagged syntax.
DrawColor(syntax) == IF syntax = HL_NORMAL THEN DEFAULT ELSE editorSyntaxToColor(syntax)

\* The loop "for i, char := range truncatedRow": i is the (1-based) offset of
\* the character in the bytes of truncatedRow.
RECURSIVE DrawLoop(_, _, _, _)
DrawLoop(truncatedRow, i, highlights, acc) ==
    IF i > Len(truncatedRow) THEN acc
    ELSE DrawLoop(truncatedRow, i + RuneWidth(truncatedRow, i), highlights,
                  Append(acc, <<RuneAt(truncatedRow, i), DrawColor(highlights[i])>>))

\* The cells editorDrawRows writes for row fileRow of the file.
DrawFileRow(c, fileRow) ==
    LET row == RowAt(c, fileRow)
        rowSize == MIN(MAX(Len(row.render) - c.colOffset, 0), c.screencols)
    IN  IF rowSize > c.colOffset
        THEN DrawLoop(Slice(StringOf(row.render), c.colOffset, rowSize), 1,
                      row.highlights, <<>>)
        ELSE <<>>

\* Whether the loop over truncatedRow reads highlights out of range.
RECURSIVE DrawLoopFaults(_, _, _)
DrawLoopFaults(truncatedRow, i, highlights) ==
    IF i > Len(truncatedRow) THEN FALSE
    ELSE \/ i > Len(highlights)
         \/ DrawLoopFaults(truncatedRow, i + RuneWidth(truncatedRow, i), highlights)

\* Whether editorDrawRows panics on row fileRow of the file: the row is not in
\* config.rows, the slice of rowRender is out of range, or the loop faults.
DrawRowFaults(c, fileRow) ==
    \/ ~RowInRange(c, fileRow)
    \/ LET row == RowAt(c, fileRow)
           rowRender == StringOf(row.render)
           rowSize == MIN(MAX(Len(row.render) - c.colOffset, 0), c.screencols)
       IN  /\ rowSize > c.colOffset
           /\ \/ rowSize > Len(rowRender)
              \/ DrawLoopFaults(Slice(rowRender, c.colOffset, rowSize), 1, row.highlights)

\* Whether editorDrawRows panics on one of the rows of the window.
DrawRowsFaults(c) ==
    \E y \in 0..(c.screenrows - 1) :
        y + c.rowOffset < c.numrows /\ DrawRowFaults(c, y + c.rowOffset)

\* editorRefreshScreen changes the editor state only through editorScroll;
\* editorDrawRows reads it, and ends the program when it reads out of range.
editorRefreshScreen(c) ==
    LET c1 == editorScroll(c)
    IN  IF c1.fault THEN c1
        ELSE IF DrawRowsFaults(c1) THEN Fault(c1)
        ELSE c1

\* ------------------------------------------------------------------------
\* Input: cursor movement
\* ------------------------------------------------------------------------
\* The content of the current row, or the empty string past the end.
CurrentRowContent(c) == IF c.cy < c.numrows THEN RowAt(c, c.cy).content ELSE <<>>

MoveRight(c, row) ==
    IF Len(row) >= 0 /\ c.cx < Len(row) THEN [c EXCEPT !.cx = c.cx + 1]
    ELSE IF Len(row) > 0 /\ c.cx = Len(row) THEN [c EXCEPT !.cy = c.cy + 1, !.cx = 0]
    ELSE c

MoveLeft(c) ==
    IF c.cx # 0 THEN [c EXCEPT !.cx = c.cx - 1]
    ELSE IF c.cy > 0
         THEN IF ~RowInRange(c, c.cy - 1) THEN Fault(c)
              ELSE [c EXCEPT !.cy = c.cy - 1, !.cx = Len(RowAt(c, c.cy - 1).content)]
    ELSE c

MoveUp(c) == IF c.cy # 0 THEN [c EXCEPT !.cy = c.cy - 1] ELSE c

\* A Down that does not stop on the line after the last; the first edit past
\* that line tells it from the code.
MoveDownUnbounded(c) == [c EXCEPT !.cy = c.cy + 1]

MoveDown(c) == IF c.cy < c.numrows THEN [c EXCEPT !.cy = c.cy + 1] ELSE c

\* A cursor that is not snapped; the validity of the cursor tells it from the
\* snap of the code.
SnapCxKeeps(c) == c

\* Snap cursor to the end of the row.
SnapCx(c) ==
    LET rowLength == MAX(Len(CurrentRowContent(c)), 0)
    IN  IF c.cx > rowLength THEN [c EXCEPT !.cx = rowLength] ELSE c

editorMoveCursor(c, key) ==
    IF c.fault THEN c
    ELSE LET row == CurrentRowContent(c)
             moved == CASE key = ARROW_UP -> MoveUp(c)
                        [] key = ARROW_LEFT -> MoveLeft(c)
                        [] key = ARROW_DOWN -> MoveDown(c)
                        [] key = ARROW_RIGHT -> MoveRight(c, row)
                        [] OTHER -> c
         IN  IF moved.fault THEN moved ELSE SnapCx(moved)

RECURSIVE RepeatMove(_, _, _)
RepeatMove(c, key, times) ==
    IF times <= 0 THEN c ELSE RepeatMove(editorMoveCursor(c, key), key, times - 1)

\* A page key that jumps to the edge of the window and replays no move; the
\* line the cursor ends on tells it from the code.
PageMoveJumpOnly(c, char) ==
    IF char = PAGE_UP THEN [c EXCEPT !.cy = c.rowOffset]
    ELSE [c EXCEPT !.cy = MIN(c.rowOffset + c.screenrows - 1, c.numrows)]

\* The PAGE_UP / PAGE_DOWN case of editorProcessKeypress.
PageMove(c, char) ==
    LET c1 == IF char = PAGE_UP THEN [c EXCEPT !.cy = c.rowOffset]
              ELSE [c EXCEPT !.cy = MIN(c.rowOffset + c.screenrows - 1, c.numrows)]
    IN  RepeatMove(c1, IF char = PAGE_UP THEN ARROW_UP ELSE ARROW_DOWN, c.screenrows)

\* The END_KEY case of editorProcessKeypress.
EndKey(c) ==
    IF c.cy < c.numrows THEN [c EXCEPT !.cx = Len(RowAt(c, c.cy).content)] ELSE c

\* The BACKSPACE / CTRL_KEY('h') / DEL_KEY case of editorProcessKeypress.
DeleteKey(c, char, zeroed) ==
    editorDelChar(IF char = DEL_KEY THEN editorMoveCursor(c, ARROW_RIGHT) ELSE c, zeroed)

\* ------------------------------------------------------------------------
\* Find
\*
\* editorOnInputFind works on the editor state and on the globals lastMatch,
\* direction, savedHighlightIndex and savedHighlights; g is a record of them:
\* [c, lastMatch, direction, savedHighlightIndex, savedHighlights, wrapped].
\* savedHighlights is <<>> for nil and <<h>> for the slice h.  The field
\* wrapped is not in the source: it records that the scan of this call
\* wrapped around an end of the buffer.
\* ------------------------------------------------------------------------
\* Restore highlights
FindRestore(g) ==
    IF g.savedHighlights = <<>> THEN g
    ELSE IF ~RowInRange(g.c, g.savedHighlightIndex) THEN [g EXCEPT !.c = Fault(g.c)]
    ELSE LET row == RowAt(g.c, g.savedHighlightIndex)
             saved == g.savedHighlights[1]
         IN  IF Len(row.render) > Len(saved) \/ Len(row.render) > Len(row.highlights)
             THEN [g EXCEPT !.c = Fault(g.c)]
             ELSE [g EXCEPT !.c.rows[g.savedHighlightIndex + 1].highlights =
                                [i \in 1..Len(row.highlights) |->
                                    IF i <= Len(row.render) THEN saved[i] ELSE row.highlights[i]],
                            !.savedHighlightIndex = 0,
                            !.savedHighlights = <<>>]

\* A wrap that leaves the index past the last row; the search order tells it
\* from the code.
FindWrapBackOnly(currentRow, numrows) ==
    IF currentRow = -1 THEN numrows - 1 ELSE currentRow

\* Wrap around search
FindWrap(currentRow, numrows) ==
    IF currentRow = -1 THEN numrows - 1
    ELSE IF currentRow = numrows THEN 0
    ELSE currentRow

\* The loop "for range config.rows": left iterations remain.  The result is the
\* row of the first match, -1 for none or -2 for an index out of range.
RECURSIVE FindScan(_, _, _, _, _, _)
FindScan(c, query, currentRow, dir, left, wrapped) ==
    IF left = 0 THEN [row |-> -1, wrapped |-> wrapped]
    ELSE LET stepped == currentRow + dir
             cur == FindWrap(stepped, c.numrows)
             w == wrapped \/ cur # stepped
         IN  IF ~RowInRange(c, cur) THEN [row |-> -2, wrapped |-> w]
             ELSE IF stringsIndex(StringOf(RowAt(c, cur).render), query) # -1
                  THEN [row |-> cur, wrapped |-> w]
             ELSE FindScan(c, query, cur, dir, left - 1, w)

\* The body of the loop on a match in row currentRow.
FindHit(g, query, currentRow) ==
    LET row == RowAt(g.c, currentRow)
        matchIndex == stringsIndex(StringOf(row.render), query)
    IN  IF Len(row.highlights) < Len(row.render) \/ matchIndex + Len(query) > Len(row.highlights)
        THEN [g EXCEPT !.c = Fault(g.c)]
        ELSE [g EXCEPT !.lastMatch = currentRow,
                       !.c.cy = currentRow,
                       !.c.cx = editorRowRxToCx(row, matchIndex),
                       !.c.rowOffset = g.c.numrows,
                       !.savedHighlightIndex = currentRow,
                       !.savedHighlights = <<SubSeq(row.highlights, 1, Len(row.render))>>,
                       !.c.rows[currentRow + 1].highlights =
                           [i \in 1..Len(row.highlights) |->
                               IF i > matchIndex /\ i <= matchIndex + Len(query)
                               THEN HL_MATCH ELSE row.highlights[i]]]

\* A key state in which every arrow searches forward; the direction property
\* tells it from the code.
FindKeyStateForward(g, key) ==
    IF key \in {ARROW_RIGHT, ARROW_DOWN, ARROW_LEFT, ARROW_UP} THEN [g EXCEPT !.direction = 1]
    ELSE [g EXCEPT !.lastMatch = -1, !.direction = 1]

\* lastMatch and direction after the key has been looked at.
FindKeyState(g, key) ==
    IF key = ARROW_RIGHT \/ key = ARROW_DOWN THEN [g EXCEPT !.direction = 1]
    ELSE IF key = ARROW_LEFT \/ key = ARROW_UP THEN [g EXCEPT !.direction = -1]
    ELSE [g EXCEPT !.lastMatch = -1, !.direction = 1]

editorOnInputFind(g0, query, key) ==
    LET g1 == FindRestore([g0 EXCEPT !.wrapped = FALSE])
    IN  IF g1.c.fault THEN g1
        ELSE IF key = CR \/ key = ESC THEN [g1 EXCEPT !.lastMatch = -1, !.direction = 1]
        ELSE LET g2 == FindKeyState(g1, key)
                 g3 == IF g2.lastMatch = -1 THEN [g2 EXCEPT !.direction = 1] ELSE g2
                 res == FindScan(g3.c, query, g3.lastMatch, g3.direction, Len(g3.c.rows), FALSE)
             IN  IF res.row = -2 THEN [g3 EXCEPT !.c = Fault(g3.c)]
                 ELSE IF res.row = -1 THEN g3
                 ELSE FindHit([g3 EXCEPT !.wrapped = res.wrapped], query, res.row)

\* ------------------------------------------------------------------------
\* Serialisation
\* ------------------------------------------------------------------------
\* Every element of the slice, each followed by a line feed.
RECURSIVE RowsToStringLoop(_, _)
RowsToStringLoop(rows, i) ==
    IF i > Len(rows) THEN <<>>
    ELSE rows[i].content \o <<LF>> \o RowsToStringLoop(rows, i + 1)

editorRowsToString(rows) == RowsToStringLoop(rows, 1)

\* ------------------------------------------------------------------------
\* State
\* ------------------------------------------------------------------------
VARIABLES
    config,              \* var config editorConfig (with the fault field)
    quitTimes,           \* var quitTimes
    lastMatch,           \* var lastMatch
    direction,           \* var direction
    savedHighlightIndex, \* var savedHighlightIndex
    savedHighlights,     \* var savedHighlights: <<>> is nil, <<h>> the slice h
    mode,                \* where the program is: "edit" (the run loop waits for a
                         \* key), "find" (editorPrompt, called by editorFind, waits
                         \* for a key), "saveas" (editorPrompt, called by
                         \* editorSave, waits for a key), "start" (main has not
                         \* run yet), "exited", "panic"
    userInput,           \* editorPrompt: userInput
    currCx,              \* editorFind: currCx
    currCy,              \* editorFind: currCy
    curColOff,           \* editorFind: curColOff
    curRowOff,           \* editorFind: curRowOff
    promptResult,        \* how the last editorPrompt returned, until the next key:
                         \* "none", "cancelled" (ESC) or "confirmed" (Enter)
    editsLeft,           \* editing keys the model still allows (MaxEdits)
    findsLeft,           \* search sessions the model still allows (MaxFinds)
    qRun,                \* history: Ctrl-Q presses dispatched in a row
    qInterrupted,        \* history: the last key other than Ctrl-Q handled by the
                         \* run loop reset a counter that Ctrl-Q had lowered
    scanWrapped,         \* history: the last search scan wrapped around
    cursorMoved,         \* history: when the last editorPrompt returned, the
                         \* cursor was away from the position editorFind saved
    rkpc,                \* editorReadKey: the ReadRune call it waits in ("first",
                         \* "seq0", "seq1", "seq2"), or "done" when it has returned
    rkchar,              \* editorReadKey: char, once the first loop has ended
    seq,                 \* editorReadKey: the units stored in seq so far
    firstUnit,           \* history: the first unit ReadRune delivered in this call
    key,                 \* editorReadKey: the key returned
    tty,                 \* the bytes typed that no read of the terminal has taken
    rbuf,                \* editorReadKey: the bytes its bufio.Reader holds unread
    typed,               \* history: the keys typed, in order
    returned,            \* history: the keys editorReadKey returned, in order
    filename,            \* config.filename, <<>> when the buffer has no name
    statusMsg,           \* config.statusMsg: which message it holds
    termios,             \* the attributes of the terminal: "original" or "raw"
    events,              \* history: what the process did to the terminal and how
                         \* it ended, in order
    disk                 \* the file of the buffer: "untouched", "truncated"
                         \* (created, nothing written) or "saved"

editorVars == <<config, quitTimes, lastMatch, direction, savedHighlightIndex,
                savedHighlights, mode, userInput, currCx, currCy, curColOff,
                curRowOff, promptResult, editsLeft, findsLeft, qRun, qInterrupted, scanWrapped,
                cursorMoved>>

\* The input of the terminal: SpecInput follows it; the other specifications
\* let ReadRune deliver what it likes, or dispatch keys, and leave it empty.
inputVars == <<tty, rbuf, typed, returned>>

readKeyVars == <<rkpc, rkchar, seq, firstUnit, key, inputVars>>

\* The file and the terminal: SpecMain follows them; the other specifications
\* start in the run loop and stay there, and leave them as they are.
procVars == <<filename, statusMsg, termios, events, disk>>

vars == <<editorVars, readKeyVars, procVars>>

\* ------------------------------------------------------------------------
\* Start of the program
\* ------------------------------------------------------------------------
\* The zero value of editorConfig with the window size set by initializeEditor,
\* which keeps two rows of the window for the status and message bars.
initializeEditor(winrows, wincols) ==
    [screenrows |-> winrows - 2, screencols |-> wincols,
     cx |-> 0, cy |-> 0, rx |-> 0, rows |-> <<>>, dirty |-> FALSE, numrows |-> 0,
     rowOffset |-> 0, colOffset |-> 0, fault |-> FALSE]

RECURSIVE OpenLoop(_, _, _)
OpenLoop(c, lines, i) ==
    IF i > Len(lines) THEN c
    ELSE OpenLoop(editorInsertRow(c, c.numrows, lines[i]), lines, i + 1)

\* A load that leaves the flag as editorInsertRow set it; the flag after the
\* load tells it from the code.
editorOpenKeepsDirty(c, lines) == OpenLoop(c, lines, 1)

\* editorOpen once os.Open has succeeded: one editorInsertRow per line of the
\* file, then the dirty flag is cleared.
editorOpen(c, lines) == [OpenLoop(c, lines, 1) EXCEPT !.dirty = FALSE]

\* The ways the model starts the program: without a file, in a window of
\* four rows or in the smallest window that has a text row and a column, or
\* with one of four files, in a window of the given size.  edits and finds are the numbers of
\* editing keys and of search sessions the model allows in that run.
Startups ==
    { [open |-> FALSE, lines |-> <<>>, winrows |-> 4, wincols |-> 3,
       edits |-> MaxEdits, finds |-> MaxFinds],
      [open |-> TRUE, lines |-> << <<DIGIT_1, DIGIT_1>>, <<TAB, DIGIT_1>> >>,
       winrows |-> 4, wincols |-> 3, edits |-> MaxEdits, finds |-> 0],
      [open |-> TRUE, lines |-> << <<DIGIT_1, DIGIT_1>>, <<TAB, DIGIT_1>> >>,
       winrows |-> 4, wincols |-> 3, edits |-> MaxEdits - 1, finds |-> MaxFinds],
      [open |-> TRUE,
       lines |-> << <<>>, <<>>, <<DIGIT_1>>, <<>>, <<>>, <<>> >>,
       winrows |-> 5, wincols |-> 3, edits |-> 0, finds |-> MaxFinds],
      [open |-> TRUE, lines |-> [i \in 1..30 |-> <<>>],
       winrows |-> 26, wincols |-> 3, edits |-> 0, finds |-> 0],
      [open |-> TRUE, lines |-> << StringOf(<<EACUTE, DIGIT_1>>), <<DIGIT_1>> >>,
       winrows |-> 4, wincols |-> 3, edits |-> 0, finds |-> MaxFinds],
      [open |-> FALSE, lines |-> <<>>, winrows |-> 3, wincols |-> 1,
       edits |-> MaxEdits, finds |-> MaxFinds] }

\* main() up to the run loop, with the first editorRefreshScreen.
StartConfig(s) ==
    LET c0 == initializeEditor(s.winrows, s.wincols)
        c1 == IF s.open THEN editorOpen(c0, s.lines) ELSE c0
    IN  editorRefreshScreen(c1)

ReadKeyInit ==
    /\ rkpc = "first"
    /\ rkchar = -1
    /\ seq = <<>>
    /\ firstUnit = -1
    /\ key = -1
    /\ tty = <<>>
    /\ rbuf = <<>>
    /\ typed = <<>>
    /\ returned = <<>>

\* The file and the terminal when main has reached the run loop.
ProcRunning ==
    /\ filename = <<>>
    /\ statusMsg = "help"
    /\ termios = "raw"
    /\ events = <<"enableRawMode">>
    /\ disk = "untouched"

Init ==
    /\ \E s \in Startups :
          /\ config = StartConfig(s)
          /\ editsLeft = s.edits
          /\ findsLeft = s.finds
    /\ quitTimes = KILO_QUIT_TIMES
    /\ lastMatch = 0
    /\ direction = 0
    /\ savedHighlightIndex = 0
    /\ savedHighlights = <<>>
    /\ mode = "edit"
    /\ userInput = <<>>
    /\ currCx = 0
    /\ currCy = 0
    /\ curColOff = 0
    /\ curRowOff = 0
    /\ promptResult = "none"
    /\ qRun = 0
    /\ qInterrupted = FALSE
    /\ scanWrapped = FALSE
    /\ cursorMoved = FALSE
    /\ ReadKeyInit
    /\ ProcRunning

\* ------------------------------------------------------------------------
\* The run loop: editorProcessKeypress, then editorRefreshScreen
\* ------------------------------------------------------------------------
\* The keys the model presses in the run loop.  CTRL_KEY('h') shares the case
\* of BACKSPACE and CTRL_KEY('l') that of ESC, so BACKSPACE and ESC stand for
\* them; Ctrl-S and the persistence collaborator are not modelled.
EditKeys == {CR, BACKSPACE, DEL_KEY} \cup Chars

MoveKeys == {ARROW_UP, ARROW_DOWN, ARROW_LEFT, ARROW_RIGHT}

Keys == EditKeys \cup MoveKeys \cup {HOME_KEY, END_KEY, PAGE_UP, PAGE_DOWN, ESC}

\* The keys the model presses in the search prompt: BACKSPACE stands for the
\* three keys that shorten the input, TAB for every key that is neither an
\* arrow nor a terminator nor a printable character.
PromptKeys == {BACKSPACE, ESC, CR, DIGIT_1, TAB} \cup MoveKeys

\* The switch of editorProcessKeypress for the keys that neither quit nor
\* open a prompt.
KeyEffect(c, char, zeroed) ==
    CASE char = CR -> editorInsertNewline(c)
      [] char = HOME_KEY -> [c EXCEPT !.cx = 0]
      [] char = END_KEY -> EndKey(c)
      [] char \in {BACKSPACE, CTRL_H, DEL_KEY} -> DeleteKey(c, char, zeroed)
      [] char \in {PAGE_UP, PAGE_DOWN} -> PageMove(c, char)
      [] char \in MoveKeys -> editorMoveCursor(c, char)
      [] char \in {CTRL_L, ESC} -> c
      [] OTHER -> editorInsertChar(c, char)

\* A counter that is left as it is; the reset property tells it from the code.
QuitTimesKept == quitTimes

\* The counter after a key other than Ctrl-Q has been handled.
QuitTimesReset == KILO_QUIT_TIMES

FindVarsUnchanged ==
    UNCHANGED <<lastMatch, direction, savedHighlightIndex, savedHighlights,
                userInput, currCx, currCy, curColOff, curRowOff, scanWrapped>>

\* A key that is handled within editorProcessKeypress, and the repaint.
ProcessKey(char, zeroed) ==
    /\ mode = "edit"
    /\ char \in EditKeys => editsLeft > 0
    /\ \E c1 \in {editorRefreshScreen(KeyEffect(config, char, zeroed))} :
           /\ config' = c1
           /\ mode' = IF c1.fault THEN "panic" ELSE "edit"
           /\ quitTimes' = IF c1.fault THEN quitTimes ELSE QuitTimesReset
           /\ qInterrupted' = (quitTimes < KILO_QUIT_TIMES)
    /\ editsLeft' = IF char \in EditKeys THEN editsLeft - 1 ELSE editsLeft
    /\ qRun' = 0
    /\ promptResult' = "none"
    /\ cursorMoved' = FALSE
    /\ UNCHANGED findsLeft
    /\ FindVarsUnchanged
    /\ UNCHANGED readKeyVars
    /\ UNCHANGED procVars

\* A countdown that leaves one press early; the count of presses tells it from
\* the code.
QuitWarnsOnceLess(dirty, times) == dirty /\ times > 1

\* The condition under which Ctrl-Q warns instead of leaving.
QuitWarns(dirty, times) == dirty /\ times > 0

\* Ctrl-Q: warn and count down while the buffer is dirty, else leave.
QuitKey ==
    /\ mode = "edit"
    /\ IF QuitWarns(config.dirty, quitTimes)
       THEN /\ quitTimes' = quitTimes - 1
            /\ config' = editorRefreshScreen(config)
            /\ mode' = "edit"
       ELSE /\ mode' = "exited"
            /\ UNCHANGED <<quitTimes, config>>
    /\ qRun' = qRun + 1
    /\ promptResult' = "none"
    /\ cursorMoved' = FALSE
    /\ UNCHANGED <<editsLeft, findsLeft, qInterrupted>>
    /\ FindVarsUnchanged
    /\ UNCHANGED readKeyVars
    /\ UNCHANGED procVars

\* ------------------------------------------------------------------------
\* Ctrl-F: editorFind and its editorPrompt
\* ------------------------------------------------------------------------
FindGlobals ==
    [c |-> config, lastMatch |-> lastMatch, direction |-> direction,
     savedHighlightIndex |-> savedHighlightIndex, savedHighlights |-> savedHighlights,
     wrapped |-> FALSE]

SetFindGlobals(g) ==
    /\ lastMatch' = g.lastMatch
    /\ direction' = g.direction
    /\ savedHighlightIndex' = g.savedHighlightIndex
    /\ savedHighlights' = g.savedHighlights
    /\ scanWrapped' = g.wrapped

\* editorFind up to the first read of a key in editorPrompt, but for the status
\* message and the process.
FindStartStep ==
    /\ mode = "edit"
    /\ findsLeft > 0
    /\ findsLeft' = findsLeft - 1
    /\ currCx' = config.cx
    /\ currCy' = config.cy
    /\ curColOff' = config.colOffset
    /\ curRowOff' = config.rowOffset
    /\ userInput' = <<>>
    /\ config' = editorRefreshScreen(config)
    /\ mode' = "find"
    /\ qRun' = 0
    /\ qInterrupted' = FALSE
    /\ promptResult' = "none"
    /\ cursorMoved' = FALSE
    /\ UNCHANGED <<quitTimes, lastMatch, direction, savedHighlightIndex, savedHighlights,
                   editsLeft, scanWrapped>>
    /\ UNCHANGED readKeyVars

\* editorFind up to the first read of a key in editorPrompt.
FindStart == FindStartStep /\ UNCHANGED procVars

\* userInput after a key that does not end the prompt.
PromptInput(input, char) ==
    IF char = DEL_KEY \/ char = CTRL_H \/ char = BACKSPACE
    THEN IF Len(input) > 0 THEN Slice(input, 0, Len(input) - 1) ELSE input
    ELSE IF ~IsControl(char) /\ char < 128 THEN Append(input, char)
    ELSE input

\* Whether the key ends editorPrompt.
PromptEnds(input, char) == char = ESC \/ (char = CR /\ Len(input) > 0)

\* One turn of the loop of editorPrompt on a key that does not end it: the
\* callback with the new input, then the repaint at the top of the loop; but
\* for the status message and the process.
FindInputStep(char) ==
    /\ mode = "find"
    /\ ~PromptEnds(userInput, char)
    /\ Len(PromptInput(userInput, char)) <= MaxQuery
    /\ \E input \in {PromptInput(userInput, char)} :
       \E g \in {editorOnInputFind(FindGlobals, input, char)} :
       \E c1 \in {editorRefreshScreen(g.c)} :
           /\ userInput' = input
           /\ config' = c1
           /\ mode' = IF c1.fault THEN "panic" ELSE "find"
           /\ SetFindGlobals(g)
    /\ UNCHANGED <<quitTimes, currCx, currCy, curColOff, curRowOff, promptResult,
                   editsLeft, findsLeft, qRun, qInterrupted, cursorMoved>>
    /\ UNCHANGED readKeyVars

\* One turn of the loop of editorPrompt on a key that does not end it.
FindInput(char) == FindInputStep(char) /\ UNCHANGED procVars

\* A return that restores the cursor and the column offset only; the restore
\* property tells it from the code.
FindReturnKeepsRowOffset(c, query) ==
    IF Len(query) = 0
    THEN [c EXCEPT !.cx = currCx, !.cy = currCy, !.colOffset = curColOff]
    ELSE c

\* The cursor and scroll position editorFind leaves: the saved ones when the
\* prompt returned the empty string.
FindReturn(c, query) ==
    IF Len(query) = 0
    THEN [c EXCEPT !.cx = currCx, !.cy = currCy,
                   !.colOffset = curColOff, !.rowOffset = curRowOff]
    ELSE c

\* The key that ends the prompt: the callback, the return to editorFind and
\* to editorProcessKeypress, and the repaint of the run loop; but for the
\* status message and the process.
FindEndStep(char) ==
    /\ mode = "find"
    /\ PromptEnds(userInput, char)
    /\ \E g \in {editorOnInputFind(FindGlobals, userInput, char)} :
       \E query \in {IF char = ESC THEN <<>> ELSE userInput} :
       \E c1 \in {editorRefreshScreen(FindReturn(g.c, query))} :
           /\ config' = c1
           /\ mode' = IF c1.fault THEN "panic" ELSE "edit"
           /\ SetFindGlobals(g)
    /\ promptResult' = IF char = ESC THEN "cancelled" ELSE "confirmed"
    /\ cursorMoved' = (config.cx # currCx \/ config.cy # currCy)
    /\ userInput' = <<>>
    /\ currCx' = 0
    /\ currCy' = 0
    /\ curColOff' = 0
    /\ curRowOff' = 0
    /\ quitTimes' = QuitTimesReset
    /\ qInterrupted' = (quitTimes < KILO_QUIT_TIMES)
    /\ UNCHANGED <<editsLeft, findsLeft, qRun>>
    /\ UNCHANGED readKeyVars

\* The key that ends the prompt of the search.
FindEnd(char) == FindEndStep(char) /\ UNCHANGED procVars

\* ------------------------------------------------------------------------
\* The editor
\* ------------------------------------------------------------------------
\* Only a key that deletes reaches slices.Delete.
TailChoices(char) == IF char \in {BACKSPACE, DEL_KEY} THEN BOOLEAN ELSE {FALSE}

Next ==
    \/ \E char \in Keys : \E zeroed \in TailChoices(char) : ProcessKey(char, zeroed)
    \/ QuitKey
    \/ FindStart
    \/ \E char \in PromptKeys : FindInput(char)
    \/ \E char \in PromptKeys : FindEnd(char)

Spec == Init /\ [][Next]_vars

\* ------------------------------------------------------------------------
\* The key decoder: editorReadKey, one action per call of ReadRune
\*
\* ReadRune delivers a unit (a code point) with a nil error, or an error: the
\* read of the terminal timed out with nothing to deliver (io.EOF, and the
\* character is zero).  TIMEOUT stands for that outcome.
\* ------------------------------------------------------------------------
TIMEOUT == -1

Digits == DIGIT_0..DIGIT_9

\* The units the model lets the terminal deliver: the units of every sequence
\* the decoder knows, a plain letter, NUL, and the code point U+03E9, whose
\* number is 1001.
Units == {NUL, ESC, LBRACKET, CHAR_O, TILDE, CHAR_q, ARROW_LEFT}
         \cup {CHAR_A, CHAR_B, CHAR_C, CHAR_D, CHAR_H, CHAR_F} \cup Digits

ReadResults == Units \cup {TIMEOUT}

\* The switch on seq[1] after <esc>[ and a digit and '~'.
DecodeTilde(digit) ==
    CASE digit = DIGIT_1 -> HOME_KEY
      [] digit = DIGIT_1 + 2 -> DEL_KEY
      [] digit = DIGIT_1 + 3 -> END_KEY
      [] digit = DIGIT_1 + 4 -> PAGE_UP
      [] digit = DIGIT_1 + 5 -> PAGE_DOWN
      [] digit = DIGIT_1 + 6 -> HOME_KEY
      [] digit = DIGIT_1 + 7 -> END_KEY
      [] OTHER -> ESC

\* The switch on seq[1] after <esc>[.
DecodeBracket(unit) ==
    CASE unit = CHAR_A -> ARROW_UP
      [] unit = CHAR_B -> ARROW_DOWN
      [] unit = CHAR_C -> ARROW_RIGHT
      [] unit = CHAR_D -> ARROW_LEFT
      [] unit = CHAR_H -> HOME_KEY
      [] unit = CHAR_F -> END_KEY
      [] OTHER -> ESC

\* The switch on seq[1] after <esc>O.
DecodeO(unit) ==
    CASE unit = CHAR_H -> HOME_KEY
      [] unit = CHAR_F -> END_KEY
      [] OTHER -> ESC

\* The key for seq[0], seq[1] when no third unit is read.
DecodeTwo(s0, s1) ==
    IF s0 = LBRACKET THEN DecodeBracket(s1)
    ELSE IF s0 = CHAR_O THEN DecodeO(s1)
    ELSE ESC

\* The key for <esc>[, a digit and seq[2].
DecodeThree(digit, s2) == IF s2 = TILDE THEN DecodeTilde(digit) ELSE ESC

\* The key for a first character that is not ESC.
PlainKey(unit) == unit

\* Whether the first loop reads again after ReadRune delivered r.
ReadAgain(r) == r = TIMEOUT \/ r = NUL

ReadKeyReturns(k) ==
    /\ key' = k
    /\ rkpc' = "done"

\* The loop that waits for a character.
ReadKeyFirstStep(r) ==
    /\ rkpc = "first"
    /\ firstUnit' = IF firstUnit = -1 /\ r # TIMEOUT THEN r ELSE firstUnit
    /\ IF ReadAgain(r)
       THEN UNCHANGED <<rkpc, rkchar, key>>
       ELSE /\ rkchar' = r
            /\ IF r = ESC
               THEN /\ rkpc' = "seq0"
                    /\ UNCHANGED key
               ELSE ReadKeyReturns(PlainKey(r))
    /\ UNCHANGED seq
    /\ UNCHANGED editorVars
    /\ UNCHANGED procVars

\* The loop that waits for a character, ReadRune delivering what it likes.
ReadKeyFirst(r) == ReadKeyFirstStep(r) /\ UNCHANGED inputVars

\* seq[0], _, err = reader.ReadRune()
ReadKeySeq0Step(r) ==
    /\ rkpc = "seq0"
    /\ IF r = TIMEOUT
       THEN /\ ReadKeyReturns(ESC)
            /\ UNCHANGED seq
       ELSE /\ seq' = <<r>>
            /\ rkpc' = "seq1"
            /\ UNCHANGED key
    /\ UNCHANGED <<rkchar, firstUnit>>
    /\ UNCHANGED editorVars
    /\ UNCHANGED procVars

\* seq[0], _, err = reader.ReadRune(), ReadRune delivering what it likes.
ReadKeySeq0(r) == ReadKeySeq0Step(r) /\ UNCHANGED inputVars

\* seq[1], _, err = reader.ReadRune()
ReadKeySeq1Step(r) ==
    /\ rkpc = "seq1"
    /\ IF r = TIMEOUT
       THEN /\ ReadKeyReturns(ESC)
            /\ UNCHANGED seq
       ELSE /\ seq' = Append(seq, r)
            /\ IF seq[1] = LBRACKET /\ r >= DIGIT_0 /\ r <= DIGIT_9
               THEN /\ rkpc' = "seq2"
                    /\ UNCHANGED key
               ELSE ReadKeyReturns(DecodeTwo(seq[1], r))
    /\ UNCHANGED <<rkchar, firstUnit>>
    /\ UNCHANGED editorVars
    /\ UNCHANGED procVars

\* seq[1], _, err = reader.ReadRune(), ReadRune delivering what it likes.
ReadKeySeq1(r) == ReadKeySeq1Step(r) /\ UNCHANGED inputVars

\* seq[2], _, err = reader.ReadRune()
ReadKeySeq2Step(r) ==
    /\ rkpc = "seq2"
    /\ IF r = TIMEOUT
       THEN /\ ReadKeyReturns(ESC)
            /\ UNCHANGED seq
       ELSE /\ seq' = Append(seq, r)
            /\ ReadKeyReturns(DecodeThree(seq[2], r))
    /\ UNCHANGED <<rkchar, firstUnit>>
    /\ UNCHANGED editorVars
    /\ UNCHANGED procVars

\* seq[2], _, err = reader.ReadRune(), ReadRune delivering what it likes.
ReadKeySeq2(r) == ReadKeySeq2Step(r) /\ UNCHANGED inputVars

\* The next call of editorReadKey starts with a new reader.
ReadKeyAgainStep ==
    /\ rkpc = "done"
    /\ rkpc' = "first"
    /\ rkchar' = -1
    /\ seq' = <<>>
    /\ firstUnit' = -1
    /\ key' = -1
    /\ UNCHANGED editorVars
    /\ UNCHANGED procVars

\* The next call of editorReadKey.
ReadKeyAgain == ReadKeyAgainStep /\ UNCHANGED inputVars

NextKeys ==
    \/ \E r \in ReadResults : ReadKeyFirst(r)
    \/ \E r \in ReadResults : ReadKeySeq0(r)
    \/ \E r \in ReadResults : ReadKeySeq1(r)
    \/ \E r \in ReadResults : ReadKeySeq2(r)
    \/ ReadKeyAgain

SpecKeys == Init /\ [][NextKeys]_vars

\* ------------------------------------------------------------------------
\* The key reader on the input of a terminal
\*
\* editorReadKey makes a bufio.Reader on os.Stdin at every call.  A ReadRune
\* on an empty reader reads the terminal once, which hands over every byte
\* that waits there (the buffer of the reader holds 4096), and delivers the
\* first; a ReadRune on a reader that holds bytes delivers the next of them.
\* In raw mode with VMIN = 0 and VTIME = 1 a read with nothing waiting times
\* out.  The reader, with what it holds, is gone when editorReadKey returns.
\* The input is ASCII, so a byte is a code point.
\* ------------------------------------------------------------------------
\* The keys typed, and the bytes a terminal sends for each.
InputKeys == {CHAR_q, ARROW_UP, PAGE_UP}

KeyBytes(k) ==
    CASE k = ARROW_UP -> <<ESC, LBRACKET, CHAR_A>>
      [] k = PAGE_UP -> <<ESC, LBRACKET, DIGIT_1 + 4, TILDE>>
      [] OTHER -> <<k>>

\* reader.ReadRune() with t waiting at the terminal and b in the reader: what
\* it delivers, and what waits and what the reader holds afterwards.
ReadRune(t, b) ==
    IF Len(b) > 0 THEN [r |-> Head(b), tty |-> t, rbuf |-> Tail(b)]
    ELSE IF Len(t) = 0 THEN [r |-> TIMEOUT, tty |-> t, rbuf |-> b]
    ELSE [r |-> Head(t), tty |-> <<>>, rbuf |-> Tail(t)]

\* A key is typed, or pasted, while the program does something else.
TypeKey(k) ==
    /\ Len(typed) < MaxTyped
    /\ tty' = tty \o KeyBytes(k)
    /\ typed' = Append(typed, k)
    /\ UNCHANGED <<rkpc, rkchar, seq, firstUnit, key, rbuf, returned>>
    /\ UNCHANGED editorVars
    /\ UNCHANGED procVars

\* One call of ReadRune in editorReadKey, and the return of editorReadKey if
\* that call was its last.
InputReadRune ==
    \E rr \in {ReadRune(tty, rbuf)} :
        /\ \/ ReadKeyFirstStep(rr.r)
           \/ ReadKeySeq0Step(rr.r)
           \/ ReadKeySeq1Step(rr.r)
           \/ ReadKeySeq2Step(rr.r)
        /\ tty' = rr.tty
        /\ rbuf' = IF rkpc' = "done" THEN <<>> ELSE rr.rbuf
        /\ returned' = IF rkpc' = "done" THEN Append(returned, key') ELSE returned
        /\ UNCHANGED typed

NextInput ==
    \/ \E k \in InputKeys : TypeKey(k)
    \/ InputReadRune
    \/ ReadKeyAgain

SpecInput == Init /\ [][NextInput]_vars

\* ------------------------------------------------------------------------
\* The buffer operations, called directly
\*
\* The operations of the buffer and the two column mappings are applied, with
\* arguments in and out of range, to buffers of lines over a tab, a digit and
\* a character of two bytes.  editsLeft counts the calls that remain.
\* ------------------------------------------------------------------------
RowAlphabet == {TAB, DIGIT_1, EACUTE}

\* The sequences of up to n characters of the alphabet.
RuneSeqs(n) == UNION {[1..k -> RowAlphabet] : k \in 0..n}

\* The line "3a7".
Line3a7 == <<DIGIT_0 + 3, CHAR_a, DIGIT_0 + 7>>

\* The lines of the one-line buffers.
RowLines == {StringOf(r) : r \in RuneSeqs(MaxLineLen)} \cup {Line3a7}

\* The lines of the two-line buffers, and the text of inserted lines.
PairLines == {<<>>, <<TAB, DIGIT_1>>, StringOf(<<EACUTE>>)}

RowBuffers ==
    {<<>>} \cup {<<l>> : l \in RowLines} \cup {<<a, b>> : a, b \in PairLines}

\* Positions and row indices the calls are made with, in and out of range.
AtRange == -1..(2 * MaxLineLen + 1)

RowIndexRange == -1..3

InitRows ==
    /\ \E lines \in RowBuffers : config = editorOpen(initializeEditor(4, 3), lines)
    /\ editsLeft = MaxRowOps
    /\ findsLeft = 0
    /\ quitTimes = KILO_QUIT_TIMES
    /\ lastMatch = 0
    /\ direction = 0
    /\ savedHighlightIndex = 0
    /\ savedHighlights = <<>>
    /\ mode = "edit"
    /\ userInput = <<>>
    /\ currCx = 0
    /\ currCy = 0
    /\ curColOff = 0
    /\ curRowOff = 0
    /\ promptResult = "none"
    /\ qRun = 0
    /\ qInterrupted = FALSE
    /\ scanWrapped = FALSE
    /\ cursorMoved = FALSE
    /\ ReadKeyInit
    /\ ProcRunning

\* One call that leaves the editor state c1.
RowOpDone(c1) ==
    /\ mode = "edit"
    /\ editsLeft > 0
    /\ editsLeft' = editsLeft - 1
    /\ config' = c1
    /\ mode' = IF c1.fault THEN "panic" ELSE "edit"
    /\ UNCHANGED <<quitTimes, lastMatch, direction, savedHighlightIndex, savedHighlights,
                   userInput, currCx, currCy, curColOff, curRowOff, promptResult,
                   findsLeft, qRun, qInterrupted, scanWrapped, cursorMoved>>
    /\ UNCHANGED readKeyVars
    /\ UNCHANGED procVars

InsertRowOp(at, text) ==
    /\ mode = "edit"
    /\ RowOpDone(editorInsertRow(config, at, text))

DelRowOp(at, zeroed) ==
    /\ mode = "edit"
    /\ RowOpDone(editorDelRow(config, at, zeroed))

\* row is &config.rows[ri], a row of the buffer.
RowInsertCharOp(ri, at, char) ==
    /\ ri < config.numrows
    /\ RowOpDone(editorRowInsertChar(config, ri, at, char))

RowDelCharOp(ri, at) ==
    /\ ri < config.numrows
    /\ RowOpDone(editorRowDelChar(config, ri, at))

\* config.rx = editorRowCxToRx(&config.rows[config.cy], config.cx), with the
\* cursor at column cx of row ri.
CxToRxOp(ri, cx) ==
    /\ ri < config.numrows
    /\ cx <= Len(RowAt(config, ri).content)
    /\ RowOpDone([config EXCEPT !.cy = ri, !.cx = cx,
                                !.rx = editorRowCxToRx(RowAt(config, ri), cx)])

\* config.cx = editorRowRxToCx(row, rx), with row the row ri.
RxToCxOp(ri, rx) ==
    /\ ri < config.numrows
    /\ RowOpDone([config EXCEPT !.cy = ri, !.cx = editorRowRxToCx(RowAt(config, ri), rx)])

\* Render columns the mapping is asked for.
RxRange == 0..(KILO_TAB_STOP * MaxLineLen + 1)

NextRows ==
    \/ \E at \in RowIndexRange : \E text \in PairLines : InsertRowOp(at, text)
    \/ \E at \in RowIndexRange : \E zeroed \in BOOLEAN : DelRowOp(at, zeroed)
    \/ \E ri \in 0..1 : \E at \in AtRange : \E char \in RowAlphabet : RowInsertCharOp(ri, at, char)
    \/ \E ri \in 0..1 : \E at \in AtRange : RowDelCharOp(ri, at)
    \/ \E ri \in 0..1 : \E cx \in 0..(2 * MaxLineLen + 1) : CxToRxOp(ri, cx)
    \/ \E ri \in 0..1 : \E rx \in RxRange : RxToCxOp(ri, rx)

SpecRows == InitRows /\ [][NextRows]_vars

\* ------------------------------------------------------------------------
\* The program from the start of main to its end, with saving
\*
\* main enables raw mode, defers exit and disableRawMode, reads the window
\* size, opens the file named on the command line and runs the loop; Ctrl-S
\* saves, asking for a name when the buffer has none.  The terminal and the
\* file system answer as they like: termOk, winOk, openOk, createOk, writeOk
\* and restoreOk say whether the call in question succeeds.
\* ------------------------------------------------------------------------
\* The editor state before main has run.
ZeroConfig == [initializeEditor(0, 0) EXCEPT !.screenrows = 0]

\* The command lines the model starts the program with: no file, or a file of
\* two lines.  edits is the number of editing keys the model allows in that
\* run.
MainStartups ==
    { [open |-> FALSE, name |-> <<>>, lines |-> <<>>, winrows |-> 4, wincols |-> 3,
       edits |-> MaxEdits],
      [open |-> TRUE, name |-> <<CHAR_F>>, lines |-> << <<DIGIT_1>>, <<TAB, DIGIT_1>> >>,
       winrows |-> 4, wincols |-> 3, edits |-> MaxEdits - 1] }

\* Deferred calls that run exit before the terminal is restored; the order of
\* the events at the end of the process tells them from the code.
DeferredCallsExitFirst == <<"exit", "disableRawMode">>

\* The calls main has deferred, in the order they run: last deferred first.
DeferredCalls == <<"disableRawMode", "exit">>

\* One deferred call.  p is [termios, events, panicking, ended]; ended says
\* that log.Fatalf has ended the process, so that nothing else runs.
DeferredCall(p, call, restoreOk) ==
    IF p.ended THEN p
    ELSE IF call = "disableRawMode"
    THEN IF restoreOk
         THEN [p EXCEPT !.termios = "original", !.events = Append(@, "disableRawMode")]
         ELSE [p EXCEPT !.events = Append(@, "restoreFailed"), !.panicking = TRUE]
    ELSE IF p.panicking
         THEN [p EXCEPT !.events = @ \o <<"cleanScreen", "fatal">>, !.ended = TRUE]
         ELSE p

\* The end of main: the deferred calls, then the return of main, or the
\* crash of a panic that nothing recovered.
RunDeferred(p, restoreOk) ==
    LET p1 == DeferredCall(p, DeferredCalls[1], restoreOk)
        p2 == DeferredCall(p1, DeferredCalls[2], restoreOk)
    IN  IF p2.ended THEN p2
        ELSE [p2 EXCEPT !.events = Append(@, IF p2.panicking THEN "crash" ELSE "return"),
                        !.ended = TRUE]

\* main ends, by a panic or by leaving the loop, with the terminal in state
\* term and the events evs so far.
MainEnds(term, evs, panicking, restoreOk) ==
    \E p \in {RunDeferred([termios |-> term, events |-> evs,
                           panicking |-> panicking, ended |-> FALSE], restoreOk)} :
        /\ termios' = p.termios
        /\ events' = p.events
        /\ mode' = IF p.events[Len(p.events)] = "return" THEN "exited" ELSE "panic"

InitMain ==
    /\ config = ZeroConfig
    /\ editsLeft = 0
    /\ findsLeft = MaxFinds
    /\ quitTimes = KILO_QUIT_TIMES
    /\ lastMatch = 0
    /\ direction = 0
    /\ savedHighlightIndex = 0
    /\ savedHighlights = <<>>
    /\ mode = "start"
    /\ userInput = <<>>
    /\ currCx = 0
    /\ currCy = 0
    /\ curColOff = 0
    /\ curRowOff = 0
    /\ promptResult = "none"
    /\ qRun = 0
    /\ qInterrupted = FALSE
    /\ scanWrapped = FALSE
    /\ cursorMoved = FALSE
    /\ ReadKeyInit
    /\ filename = <<>>
    /\ statusMsg = ""
    /\ termios = "original"
    /\ events = <<>>
    /\ disk = "untouched"

MainUnchanged ==
    /\ UNCHANGED <<lastMatch, direction, savedHighlightIndex, savedHighlights, currCx, currCy,
                   curColOff, curRowOff, promptResult, findsLeft, qInterrupted, scanWrapped,
                   cursorMoved>>
    /\ UNCHANGED readKeyVars

\* The terminal after a step of the run loop or of a prompt: a panic within
\* the step ends main.
PanicEndsMain(restoreOk) ==
    IF config'.fault THEN MainEnds(termios, events, TRUE, restoreOk)
    ELSE UNCHANGED <<termios, events>>

\* main up to the first wait for a key.  enableRawMode panics when it cannot
\* read the terminal attributes, before anything is deferred; it does not
\* look at the result of the call that sets raw mode, which the model takes
\* to succeed.
MainStart(s, termOk, winOk, openOk, restoreOk) ==
    /\ mode = "start"
    /\ IF ~termOk
       THEN /\ mode' = "panic"
            /\ events' = <<"crash">>
            /\ UNCHANGED <<config, filename, statusMsg, termios>>
       ELSE IF ~winOk
       THEN /\ MainEnds("raw", <<"enableRawMode">>, TRUE, restoreOk)
            /\ UNCHANGED <<config, filename, statusMsg>>
       ELSE IF s.open /\ ~openOk
       THEN /\ MainEnds("raw", <<"enableRawMode">>, TRUE, restoreOk)
            /\ config' = initializeEditor(s.winrows, s.wincols)
            /\ filename' = s.name
            /\ UNCHANGED statusMsg
       ELSE /\ config' = StartConfig(s)
            /\ filename' = s.name
            /\ statusMsg' = "help"
            /\ termios' = "raw"
            /\ events' = <<"enableRawMode">>
            /\ mode' = "edit"
    /\ editsLeft' = s.edits
    /\ UNCHANGED <<quitTimes, userInput, qRun, disk>>
    /\ MainUnchanged

\* A key that is handled within editorProcessKeypress, and the repaint; a
\* panic within the handler ends main.
MainKey(char, zeroed, restoreOk) ==
    /\ mode = "edit"
    /\ char \in EditKeys => editsLeft > 0
    /\ \E c1 \in {editorRefreshScreen(KeyEffect(config, char, zeroed))} :
           /\ config' = c1
           /\ mode' = IF c1.fault THEN "panic" ELSE "edit"
           /\ quitTimes' = IF c1.fault THEN quitTimes ELSE QuitTimesReset
    /\ PanicEndsMain(restoreOk)
    /\ editsLeft' = IF char \in EditKeys THEN editsLeft - 1 ELSE editsLeft
    /\ qRun' = 0
    /\ UNCHANGED <<userInput, filename, statusMsg, disk>>
    /\ MainUnchanged

\* Ctrl-F in the run loop: editorFind up to the first read of a key.
MainFindStart ==
    /\ FindStartStep
    /\ statusMsg' = "search"
    /\ UNCHANGED <<filename, termios, events, disk>>

\* One turn of the loop of editorPrompt in editorFind.
MainFindInput(char, restoreOk) ==
    /\ FindInputStep(char)
    /\ statusMsg' = "search"
    /\ PanicEndsMain(restoreOk)
    /\ UNCHANGED <<filename, disk>>

\* The key that ends the prompt of editorFind, which clears the status message.
MainFindEnd(char, restoreOk) ==
    /\ FindEndStep(char)
    /\ statusMsg' = ""
    /\ PanicEndsMain(restoreOk)
    /\ UNCHANGED <<filename, disk>>

\* editorReadKey fails to read the terminal.
KeyReadFails(restoreOk) ==
    /\ mode \in {"edit", "find", "saveas"}
    /\ MainEnds(termios, events, TRUE, restoreOk)
    /\ UNCHANGED <<config, quitTimes, userInput, qRun, filename, statusMsg, disk>>
    /\ UNCHANGED editsLeft
    /\ MainUnchanged

\* Ctrl-Q in the run loop, and the end of main when it leaves the loop.
MainQuit(restoreOk) ==
    /\ mode = "edit"
    /\ IF QuitWarns(config.dirty, quitTimes)
       THEN /\ quitTimes' = quitTimes - 1
            /\ statusMsg' = "quit"
            /\ config' = editorRefreshScreen(config)
            /\ UNCHANGED <<mode, termios, events>>
       ELSE /\ MainEnds(termios, Append(events, "cleanScreen"), FALSE, restoreOk)
            /\ UNCHANGED <<quitTimes, statusMsg, config>>
    /\ qRun' = qRun + 1
    /\ UNCHANGED <<userInput, filename, disk>>
    /\ UNCHANGED editsLeft
    /\ MainUnchanged

\* editorSave from os.Create on, with the name the buffer now has, and the
\* return to the run loop.  os.Create fails for the empty name.
SaveFile(name, createOk, writeOk, restoreOk) ==
    IF name = <<>> \/ ~createOk
    THEN /\ MainEnds(termios, events, TRUE, restoreOk)
         /\ UNCHANGED <<config, quitTimes, disk>>
    ELSE /\ config' = editorRefreshScreen(IF writeOk THEN [config EXCEPT !.dirty = FALSE]
                                          ELSE config)
         /\ statusMsg' = IF writeOk THEN "written" ELSE "cantsave"
         /\ disk' = IF writeOk THEN "saved" ELSE "truncated"
         /\ quitTimes' = KILO_QUIT_TIMES
         /\ mode' = "edit"
         /\ UNCHANGED <<termios, events>>

\* Ctrl-S: editorSave, up to the first wait for a key in the prompt when the
\* buffer has no name.
SaveKey(createOk, writeOk, restoreOk) ==
    /\ mode = "edit"
    /\ IF Len(filename) = 0
       THEN /\ mode' = "saveas"
            /\ statusMsg' = "prompt"
            /\ config' = editorRefreshScreen(config)
            /\ UNCHANGED <<quitTimes, termios, events, disk>>
       ELSE /\ SaveFile(filename, createOk, writeOk, restoreOk)
            /\ (mode' = "panic" => UNCHANGED statusMsg)
    /\ userInput' = <<>>
    /\ qRun' = 0
    /\ UNCHANGED filename
    /\ UNCHANGED editsLeft
    /\ MainUnchanged

\* One turn of the loop of editorPrompt in editorSave on a key that does not
\* end it.
SaveAsInput(char) ==
    /\ mode = "saveas"
    /\ ~PromptEnds(userInput, char)
    /\ Len(PromptInput(userInput, char)) <= MaxName
    /\ userInput' = PromptInput(userInput, char)
    /\ statusMsg' = "prompt"
    /\ config' = editorRefreshScreen(config)
    /\ UNCHANGED <<mode, quitTimes, qRun, filename, termios, events, disk>>
    /\ UNCHANGED editsLeft
    /\ MainUnchanged

\* The key that ends the prompt of editorSave, and the rest of editorSave:
\* the name is what the prompt returned, the empty string after ESC.
SaveAsEnd(char, createOk, writeOk, restoreOk) ==
    /\ mode = "saveas"
    /\ PromptEnds(userInput, char)
    /\ \E name \in {IF char = ESC THEN <<>> ELSE userInput} :
           /\ filename' = name
           /\ SaveFile(name, createOk, writeOk, restoreOk)
           /\ (mode' = "panic" => statusMsg' = IF char = ESC THEN "aborted" ELSE "")
    /\ userInput' = <<>>
    /\ UNCHANGED qRun
    /\ UNCHANGED editsLeft
    /\ MainUnchanged

NextMain ==
    \/ \E s \in MainStartups : \E termOk, winOk, openOk, restoreOk \in BOOLEAN :
           MainStart(s, termOk, winOk, openOk, restoreOk)
    \/ \E char \in Keys : \E zeroed \in TailChoices(char) : \E restoreOk \in BOOLEAN :
           MainKey(char, zeroed, restoreOk)
    \/ MainFindStart
    \/ \E char \in PromptKeys : \E restoreOk \in BOOLEAN : MainFindInput(char, restoreOk)
    \/ \E char \in PromptKeys : \E restoreOk \in BOOLEAN : MainFindEnd(char, restoreOk)
    \/ \E restoreOk \in BOOLEAN : KeyReadFails(restoreOk)
    \/ \E restoreOk \in BOOLEAN : MainQuit(restoreOk)
    \/ \E createOk, writeOk, restoreOk \in BOOLEAN : SaveKey(createOk, writeOk, restoreOk)
    \/ \E char \in PromptKeys : SaveAsInput(char)
    \/ \E char \in {ESC, CR} : \E createOk, writeOk, restoreOk \in BOOLEAN :
           SaveAsEnd(char, createOk, writeOk, restoreOk)

SpecMain == InitMain /\ [][NextMain]_vars

\* ------------------------------------------------------------------------
\* Properties of the editor (Spec)
\* ------------------------------------------------------------------------
\* The run loop or the search prompt waits for a key.
Waiting == mode \in {"edit", "find"}

\* The lines of the buffer: the first numrows elements of config.rows.
BufferLines(c) == [i \in 1..c.numrows |-> c.rows[i].content]

RECURSIVE JoinLines(_, _)
JoinLines(lines, i) ==
    IF i > Len(lines) THEN <<>>
    ELSE lines[i] \o <<LF>> \o JoinLines(lines, i + 1)

\* C1: serialising the buffer gives its lines in order, each followed by
\* exactly one line feed, and nothing else: as many terminated lines as the
\* buffer has lines.
C1_RowsToStringIsBufferText ==
    Waiting => editorRowsToString(config.rows) = JoinLines(BufferLines(config), 1)

\* C2: after every scroll adjustment of a buffer with lines the cursor is in
\* the window, rowOffset <= cy < rowOffset + screenrows and
\* colOffset <= rx < colOffset + screencols, with offsets that are not
\* negative.
CursorVisible ==
    (Waiting /\ config.numrows > 0) =>
        /\ config.rowOffset >= 0
        /\ config.colOffset >= 0
        /\ config.rowOffset <= config.cy
        /\ config.cy < config.rowOffset + config.screenrows
        /\ config.colOffset <= config.rx
        /\ config.rx < config.colOffset + config.screencols

\* C2: a key of the run loop that leaves the cursor below (right of) the window
\* scrolls by just enough: the cursor is on the last row (column) of the
\* window afterwards.
ScrollsJustEnough ==
    (mode = "edit" /\ mode' = "edit" /\ config'.numrows > 0) =>
        /\ config'.cy >= config.rowOffset + config.screenrows
              => config'.rowOffset = config'.cy - config.screenrows + 1
        /\ config'.rx >= config.colOffset + config.screencols
              => config'.colOffset = config'.rx - config.screencols + 1

C2_ScrollKeepsCursorVisible == []CursorVisible /\ [][ScrollsJustEnough]_vars

\* C2: thirty lines in a window of 24 text rows, the cursor on line 29 and
\* the window scrolled to line 6.
C2_Witness ==
    /\ mode = "edit"
    /\ config.numrows = 30
    /\ config.screenrows = 24
    /\ config.cy = 29
    /\ config.rowOffset = 6

\* C3: whatever keys were pressed, 0 <= cy <= numrows, and 0 <= cx <= the
\* length of line cy when cy is a line, and cx = 0 when cy = numrows.
C3_CursorValid ==
    Waiting =>
        /\ 0 <= config.cy
        /\ config.cy <= config.numrows
        /\ 0 <= config.cx
        /\ config.cy < config.numrows => config.cx <= Len(config.rows[config.cy + 1].content)
        /\ config.cy = config.numrows => config.cx = 0

\* C3: after an edit and a search ended with Enter the cursor is inside a line.
C3_Witness ==
    /\ mode = "edit"
    /\ config.dirty
    /\ promptResult = "confirmed"
    /\ config.cy < config.numrows
    /\ config.cx > 0

\* C4 as stated: a modified buffer is left by the KILO_QUIT_TIMES-th Ctrl-Q
\* in a row.
C4_QuitAfterQuitTimes ==
    (mode = "exited" /\ config.dirty) => qRun = KILO_QUIT_TIMES

\* C4: a modified buffer is left by Ctrl-Q number KILO_QUIT_TIMES + 1 in a row
\* and by no earlier one: each of the first KILO_QUIT_TIMES lowers the counter
\* by one and leaves the editor running.
C4_QuitAfterQuitTimesPlusOne ==
    /\ (mode = "exited" /\ config.dirty) => qRun = KILO_QUIT_TIMES + 1
    /\ (mode = "edit" /\ config.dirty /\ qRun > 0 /\ ~qInterrupted) =>
           /\ qRun <= KILO_QUIT_TIMES
           /\ quitTimes = KILO_QUIT_TIMES - qRun
    /\ (mode = "exited" /\ ~config.dirty) => qRun = 1

\* C4: the modified buffer has been left, by the fourth Ctrl-Q in a row.
C4_Witness ==
    /\ mode = "exited"
    /\ config.dirty
    /\ ~qInterrupted
    /\ qRun = KILO_QUIT_TIMES + 1

\* C5: once the run loop has handled a key other than Ctrl-Q the counter is
\* KILO_QUIT_TIMES again, so that a run of Ctrl-Q that follows an interrupted
\* one needs as many presses as an uninterrupted run.
C5_OtherKeyResetsQuitTimes ==
    /\ (mode = "edit" /\ qRun = 0) => quitTimes = KILO_QUIT_TIMES
    /\ (mode = "exited" /\ config.dirty /\ qInterrupted) => qRun = KILO_QUIT_TIMES + 1

\* C5: a run of Ctrl-Q was interrupted by another key, and the run after it
\* has left the modified buffer.
C5_Witness ==
    /\ mode = "exited"
    /\ config.dirty
    /\ qInterrupted
    /\ qRun = KILO_QUIT_TIMES + 1

\* Whether sub occurs in s.
Contains(s, sub) ==
    \E i \in 0..(Len(s) - Len(sub)) : SubSeq(s, i + 1, i + Len(sub)) = sub

\* The row a search for query finds when it starts after row start (-1: before
\* the first row) and goes in direction d: the first of the rows
\* start + d, start + 2d, ..., taken modulo the number of lines, whose render
\* contains query; -1 when there is none.
FirstMatch(c, query, start, d) ==
    LET n == c.numrows
        order == [k \in 1..n |-> (start + d * k) % n]
        hits == {k \in 1..n : Contains(c.rows[order[k] + 1].render, query)}
    IN  IF hits = {} THEN -1
        ELSE order[CHOOSE k \in hits : \A j \in hits : k <= j]

\* The keys of the prompt on which the callback searches: Enter on an empty
\* input only resets lastMatch and direction.
SearchKeys == PromptKeys \ {CR, ESC}

\* What a key of the search prompt that does not end it does to the cursor:
\* an arrow goes on from lastMatch, any other key starts before the first row
\* and forward.
SearchLands(char) ==
    LET start == IF char \in MoveKeys THEN lastMatch ELSE -1
        d == IF start # -1 /\ char \in {ARROW_LEFT, ARROW_UP} THEN -1 ELSE 1
        found == FirstMatch(config, userInput', start, d)
    IN  IF found = -1
        THEN /\ lastMatch' = start
             /\ config'.cy = config.cy
             /\ config'.cx = config.cx
        ELSE /\ lastMatch' = found
             /\ config'.cy = found

\* The file of six lines whose line 2 alone contains the query.
SixLinesOneMatch ==
    /\ config.numrows = 6
    /\ mode = "find"
    /\ userInput = <<DIGIT_1>>
    /\ \A i \in 0..5 : Contains(config.rows[i + 1].render, userInput) <=> i = 2

\* C8: a search visits the rows from lastMatch + direction on, wrapping from
\* the last row to row 0 and from row 0 to the last row, and lands on the
\* first one whose render contains the query; in the file of six lines whose
\* line 2 alone has the query every search, the wrapped one included, lands on
\* line 2.
C8_SearchWraps ==
    /\ [](SixLinesOneMatch /\ lastMatch # -1 => lastMatch = 2 /\ config.cy = 2)
    /\ [][\A char \in SearchKeys : FindInput(char) => SearchLands(char)]_vars

\* C8: in the file of six lines, Down was pressed on the match in line 2 and
\* the scan wrapped round to line 2.
C8_Witness ==
    /\ SixLinesOneMatch
    /\ scanWrapped
    /\ direction = 1
    /\ lastMatch = 2
    /\ config.cy = 2

\* What the steps of a search session do to the cursor, the scroll position
\* and the lines.
SearchEndStep ==
    /\ (mode = "edit" /\ mode' = "find") =>
           /\ currCx' = config.cx /\ currCy' = config.cy
           /\ curColOff' = config.colOffset /\ curRowOff' = config.rowOffset
           /\ BufferLines(config') = BufferLines(config)
    /\ (mode = "find" /\ mode' = "find") =>
           /\ UNCHANGED <<currCx, currCy, curColOff, curRowOff>>
           /\ BufferLines(config') = BufferLines(config)
    /\ (mode = "find" /\ mode' = "edit" /\ promptResult' = "cancelled") =>
           /\ config'.cx = currCx /\ config'.cy = currCy
           /\ config'.colOffset = curColOff /\ config'.rowOffset = curRowOff
           /\ BufferLines(config') = BufferLines(config)
    /\ (mode = "find" /\ mode' = "edit" /\ promptResult' = "confirmed") =>
           /\ Len(userInput) > 0
           /\ config'.cx = config.cx /\ config'.cy = config.cy
           /\ lastMatch # -1 =>
                  /\ config.cy = lastMatch
                  /\ Contains(config.rows[lastMatch + 1].render, userInput)
           /\ BufferLines(config') = BufferLines(config)

\* C9: ESC ends a search with cx, cy, rowOffset and colOffset as they were
\* when the search started, whatever was pressed in between; Enter on a query
\* that is not empty leaves the cursor where the last match put it; the lines
\* of the buffer are the same as before in both cases.
C9_SearchEndRestoresOrKeeps == [][SearchEndStep]_vars

\* C9: ESC has ended a search whose matches had moved the cursor away from
\* where it was when the search started.
C9_Witness ==
    /\ mode = "edit"
    /\ promptResult = "cancelled"
    /\ cursorMoved

\* C10: every line of the buffer has as many highlights as rendered
\* characters, and at least as many rendered characters as characters.
C10_RowsRendered ==
    Waiting =>
        \A i \in 1..config.numrows :
            /\ Len(config.rows[i].highlights) = Len(config.rows[i].render)
            /\ Len(config.rows[i].render) >= Len(config.rows[i].content)

\* ------------------------------------------------------------------------
\* Properties of the key decoder (SpecKeys)
\* ------------------------------------------------------------------------
\* The keys above the characters.
NavKeys == {ARROW_LEFT, ARROW_RIGHT, ARROW_UP, ARROW_DOWN, DEL_KEY, HOME_KEY,
            END_KEY, PAGE_UP, PAGE_DOWN}

\* The sequences after ESC that stand for a key, each with its key.
Recognised ==
    { << <<LBRACKET, CHAR_A>>, ARROW_UP >>, << <<LBRACKET, CHAR_B>>, ARROW_DOWN >>,
      << <<LBRACKET, CHAR_C>>, ARROW_RIGHT >>, << <<LBRACKET, CHAR_D>>, ARROW_LEFT >>,
      << <<LBRACKET, CHAR_H>>, HOME_KEY >>, << <<LBRACKET, CHAR_F>>, END_KEY >>,
      << <<LBRACKET, DIGIT_0 + 1, TILDE>>, HOME_KEY >>,
      << <<LBRACKET, DIGIT_0 + 3, TILDE>>, DEL_KEY >>,
      << <<LBRACKET, DIGIT_0 + 4, TILDE>>, END_KEY >>,
      << <<LBRACKET, DIGIT_0 + 5, TILDE>>, PAGE_UP >>,
      << <<LBRACKET, DIGIT_0 + 6, TILDE>>, PAGE_DOWN >>,
      << <<LBRACKET, DIGIT_0 + 7, TILDE>>, HOME_KEY >>,
      << <<LBRACKET, DIGIT_0 + 8, TILDE>>, END_KEY >>,
      << <<CHAR_O, CHAR_H>>, HOME_KEY >>, << <<CHAR_O, CHAR_F>>, END_KEY >> }

\* The decoder has read ESC and then exactly the units of a recognised sequence.
ReadRecognised == rkchar = ESC /\ \E p \in Recognised : seq = p[1]

\* C6: every recognised sequence yields its key, and an arrow or navigation
\* key is yielded by a recognised sequence only.
C6_DecoderRecognisedOnly ==
    rkpc = "done" =>
        /\ \A p \in Recognised : (rkchar = ESC /\ seq = p[1]) => key = p[2]
        /\ key \in NavKeys => ReadRecognised

\* C7: ESC followed by anything but a recognised sequence yields ESC, and a
\* first unit other than ESC is yielded as the key with the code of the unit.
C7_DecoderFallback ==
    rkpc = "done" =>
        /\ (firstUnit = ESC /\ ~ReadRecognised) => key = ESC
        /\ firstUnit # ESC => key = firstUnit

\* ------------------------------------------------------------------------
\* Properties of the buffer operations (SpecRows)
\* ------------------------------------------------------------------------
\* The characters chars with each tab replaced by spaces up to the next
\* multiple of the tab stop, written after acc.
RECURSIVE TabExpand(_, _)
TabExpand(chars, acc) ==
    IF chars = <<>> THEN acc
    ELSE IF Head(chars) = TAB
         THEN TabExpand(Tail(chars),
                        acc \o [i \in 1..(KILO_TAB_STOP - (Len(acc) % KILO_TAB_STOP)) |-> SPACE])
         ELSE TabExpand(Tail(chars), Append(acc, Head(chars)))

\* The tab-expanded form of the content of row.
Expansion(row) == TabExpand(Runes(row.content), <<>>)

\* A call that inserts or deletes a character re-renders row ri.
ReRenders(ri) ==
    \/ \E at \in AtRange : \E char \in RowAlphabet : RowInsertCharOp(ri, at, char)
    \/ \E at \in AtRange : RowDelCharOp(ri, at) /\ config'.rows # config.rows

\* C11: after a re-render the render of the row is the tab expansion of its
\* content, those characters and no others.
C11_RenderIsExpansion ==
    [][\A ri \in 0..1 : (ReRenders(ri) /\ mode' = "edit") =>
           config'.rows[ri + 1].render = Expansion(config'.rows[ri + 1])]_vars

\* The sequence lines with text inserted at index at (0-based).
InsertAt(lines, at, text) ==
    SubSeq(lines, 1, at) \o <<text>> \o SubSeq(lines, at + 1, Len(lines))

\* The sequence lines without the element at index at (0-based).
RemoveAt(lines, at) == SubSeq(lines, 1, at) \o SubSeq(lines, at + 2, Len(lines))

\* The render a re-render gives a row with content text.
RenderOf(text) == editorUpdateRow(NewRow(text)).render

\* C12: inserting a line at an index in [0, numrows] puts text at that
\* index, keeps the other lines in order, adds one to numrows, sets dirty
\* and leaves the inserted line rendered; at any other index nothing changes.
C12_InsertLine ==
    [][\A at \in RowIndexRange : \A text \in PairLines :
          InsertRowOp(at, text) =>
              IF at >= 0 /\ at <= config.numrows
              THEN /\ BufferLines(config') = InsertAt(BufferLines(config), at, text)
                   /\ config'.numrows = config.numrows + 1
                   /\ config'.dirty
                   /\ config'.rows[at + 1].render = RenderOf(text)
              ELSE config' = config]_vars

\* C13: deleting the line at an index in [0, numrows) leaves the other
\* lines in their order, takes one from numrows and sets dirty; at any other
\* index the lines, numrows and dirty stay as they are.
C13_DeleteLine ==
    [][\A at \in RowIndexRange : \A zeroed \in BOOLEAN :
          DelRowOp(at, zeroed) =>
              IF at >= 0 /\ at < config.numrows
              THEN /\ BufferLines(config') = RemoveAt(BufferLines(config), at)
                   /\ config'.numrows = config.numrows - 1
                   /\ config'.dirty
              ELSE /\ BufferLines(config') = BufferLines(config)
                   /\ config'.numrows = config.numrows
                   /\ config'.dirty = config.dirty]_vars

\* A two-line buffer whose first line has been deleted: the tab line is gone
\* and the other line is now line 0.
C13_Witness ==
    /\ config.dirty
    /\ config.numrows = 1
    /\ Len(config.rows) = 2
    /\ BufferLines(config) = <<StringOf(<<EACUTE>>)>>
    /\ editsLeft = MaxRowOps - 1

\* C14: on every line, inserting a character at a position within the line
\* and then deleting at the same position completes and leaves the content
\* of the line as it was before the insertion.
C14_InsertThenDelete ==
    mode = "edit" =>
        \A ri \in 0..(config.numrows - 1) :
            \A at \in 0..Len(RowAt(config, ri).content) : \A char \in RowAlphabet :
                LET c1 == editorRowInsertChar(config, ri, at, char)
                    c2 == editorRowDelChar(c1, ri, at)
                IN  /\ ~c2.fault
                    /\ RowAt(c2, ri).content = RowAt(config, ri).content

\* C15: deleting a character at a position outside [0, len(content)] changes
\* nothing; at every position inside that range the call completes, removes
\* one character, re-renders the row and sets dirty.
C15_DeleteChar ==
    [][\A ri \in 0..1 : \A at \in AtRange :
          RowDelCharOp(ri, at) =>
              LET row == RowAt(config, ri)
                  after == RowAt(config', ri)
              IN  IF at < 0 \/ at > Len(row.content)
                  THEN config' = config
                  ELSE /\ mode' = "edit"
                       /\ Len(Runes(after.content)) = Len(Runes(row.content)) - 1
                       /\ after.render = RenderOf(after.content)
                       /\ config'.dirty]_vars

\* The render index at which the tab expansion places character cx of chars
\* (0-based; the expanded length for cx = Len(chars)).
RenderIndex(chars, cx) == Len(TabExpand(SubSeq(chars, 1, cx), <<>>))

HasTab(chars) == \E i \in 1..Len(chars) : chars[i] = TAB

\* C16: editorRowCxToRx(row, cx) is the render index of content character
\* cx; it is cx itself on a line without tabs, and 8 for cx = 1 on a line
\* that starts with a tab.
C16_CxToRxIsRenderIndex ==
    [][\A ri \in 0..1 : \A cx \in 0..(2 * MaxLineLen + 1) :
          CxToRxOp(ri, cx) =>
              LET chars == Runes(RowAt(config, ri).content)
              IN  /\ cx <= Len(chars) => config'.rx = RenderIndex(chars, cx)
                  /\ ~HasTab(chars) => config'.rx = cx
                  /\ (cx = 1 /\ chars # <<>> /\ chars[1] = TAB) =>
                         config'.rx = KILO_TAB_STOP]_vars

\* C17: editorRowRxToCx gives back every cx that editorRowCxToRx maps to its
\* argument, and the index of the tab for an rx strictly inside the expansion
\* of a tab.
C17_RxToCxInvertsCxToRx ==
    [][\A ri \in 0..1 : \A rx \in RxRange :
          RxToCxOp(ri, rx) =>
              LET row == RowAt(config, ri)
                  chars == Runes(row.content)
              IN  /\ \A cx \in 0..Len(row.content) :
                         editorRowCxToRx(row, cx) = rx => config'.cx = cx
                  /\ \A t \in 0..(Len(chars) - 1) :
                         (/\ chars[t + 1] = TAB
                          /\ RenderIndex(chars, t) < rx
                          /\ rx < RenderIndex(chars, t + 1)) => config'.cx = t]_vars

\* The tags of the characters of a rendered line.
TagsOf(expanded) ==
    [i \in 1..Len(expanded) |->
        IF expanded[i] \in DIGIT_0..DIGIT_9 THEN HL_NUMBER ELSE HL_NORMAL]

\* C18: after a re-render the highlights hold one tag for each character of
\* the tab-expanded line, number for a decimal digit and normal otherwise; a
\* line "3a7" has the tags number, normal, number.
C18_HighlightTags ==
    /\ [](\A i \in 1..config.numrows :
             config.rows[i].content = Line3a7 =>
                 config.rows[i].highlights = <<HL_NUMBER, HL_NORMAL, HL_NUMBER>>)
    /\ [][\A ri \in 0..1 : (ReRenders(ri) /\ mode' = "edit") =>
             config'.rows[ri + 1].highlights = TagsOf(Expansion(config'.rows[ri + 1]))]_vars

\* ------------------------------------------------------------------------
\* Properties of the Delete and Right keys (Spec)
\* ------------------------------------------------------------------------
\* The length of line cy of c, 0 on the line past the end.
LineLen(c, cy) == IF cy < c.numrows THEN Len(c.rows[cy + 1].content) ELSE 0

CursorKept == config'.cy = config.cy /\ config'.cx = config.cx

\* The lines with the character at cx removed from line cy (both 0-based).
WithoutChar(lines, cy, cx) ==
    [lines EXCEPT ![cy + 1] = RemoveAt(lines[cy + 1], cx)]

\* The lines with line cy + 1 joined onto line cy.
Joined(lines, cy) ==
    RemoveAt([lines EXCEPT ![cy + 1] = lines[cy + 1] \o lines[cy + 2]], cy + 1)

\* C19: Delete removes the character at the cursor, or at the end of a line
\* joins the following line onto it, or changes nothing when nothing follows
\* the cursor; the cursor stays where it was.
C19_DeleteKey ==
    [][\A zeroed \in BOOLEAN :
          (ProcessKey(DEL_KEY, zeroed) /\ mode' = "edit") =>
              LET lines == BufferLines(config)
                  cy == config.cy
                  cx == config.cx
              IN  /\ CursorKept
                  /\ BufferLines(config') =
                         IF cy < config.numrows /\ cx < LineLen(config, cy)
                         THEN WithoutChar(lines, cy, cx)
                         ELSE IF cy + 1 < config.numrows
                         THEN Joined(lines, cy)
                         ELSE lines]_vars

\* C20: Right adds one to cx inside a line, goes to column 0 of the next
\* line from the end of a line, and does nothing on the line past the end.
C20_MoveRight ==
    [][(ProcessKey(ARROW_RIGHT, FALSE) /\ mode' = "edit") =>
           IF config.cy = config.numrows THEN CursorKept
           ELSE IF config.cx < LineLen(config, config.cy)
           THEN config'.cy = config.cy /\ config'.cx = config.cx + 1
           ELSE config'.cy = config.cy + 1 /\ config'.cx = 0]_vars

\* ------------------------------------------------------------------------
\* Properties of the stored rows and of Enter (Spec)
\* ------------------------------------------------------------------------
\* C24: the stored rows are as many as numrows says, so a loop over
\* config.rows visits exactly the lines of the buffer.
C24_StoredRowsAreNumrows == Waiting => Len(config.rows) = config.numrows

\* The lines after Enter at (cx, cy): an empty line at cy when cx = 0, else
\* line cy cut at cx and the rest of it as line cy + 1.
SplitAt(lines, cy, cx) ==
    IF cx = 0 THEN InsertAt(lines, cy, <<>>)
    ELSE InsertAt([lines EXCEPT ![cy + 1] = SubSeq(lines[cy + 1], 1, cx)], cy + 1,
                  SubSeq(lines[cy + 1], cx + 1, Len(lines[cy + 1])))

\* C25: Enter adds one line, splitting line cy at cx, keeps the other lines
\* in order, puts the cursor at column 0 of line cy + 1, and leaves the lines
\* cy and cy + 1 rendered.
C25_EnterSplits ==
    [][(ProcessKey(CR, FALSE) /\ mode' = "edit") =>
           /\ config'.numrows = config.numrows + 1
           /\ BufferLines(config') = SplitAt(BufferLines(config), config.cy, config.cx)
           /\ config'.cy = config.cy + 1
           /\ config'.cx = 0
           /\ \A i \in {config.cy, config.cy + 1} :
                  i < config'.numrows =>
                      config'.rows[i + 1].render = RenderOf(config'.rows[i + 1].content)]_vars

\* ------------------------------------------------------------------------
\* Properties of the search session (Spec)
\* ------------------------------------------------------------------------
\* The stored rows with a search-match tag (1-based).
TaggedRows(c) ==
    {i \in 1..Len(c.rows) :
        \E j \in 1..Len(c.rows[i].highlights) : c.rows[i].highlights[j] = HL_MATCH}

\* The tags of row as the re-render left them.
PlainTags(row) == editorUpdateSyntax(row.render)

\* The index (0-based) of the first occurrence of sub in s, -1 for none.
Occurrence(s, sub) ==
    IF Contains(s, sub)
    THEN CHOOSE i \in 0..(Len(s) - Len(sub)) :
             /\ SubSeq(s, i + 1, i + Len(sub)) = sub
             /\ \A j \in 0..(i - 1) : SubSeq(s, j + 1, j + Len(sub)) # sub
    ELSE -1

\* The tags of row with the first occurrence of query in its render marked.
MatchTags(row, query) ==
    LET m == Occurrence(row.render, query)
    IN  [j \in 1..Len(row.render) |->
            IF j > m /\ j <= m + Len(query) THEN HL_MATCH ELSE PlainTags(row)[j]]

\* C26: outside a search session no row has a search-match tag, no saved
\* tags are pending and every row has the tags of its render; during a
\* session at most one row is tagged, the row of the current match, on the
\* span of the match and nowhere else.
C26_HighlightProtocol ==
    /\ mode = "edit" =>
           /\ TaggedRows(config) = {}
           /\ savedHighlights = <<>>
           /\ \A i \in 1..Len(config.rows) : config.rows[i].highlights = PlainTags(config.rows[i])
    /\ mode = "find" =>
           /\ Cardinality(TaggedRows(config)) <= 1
           /\ \A i \in 1..Len(config.rows) :
                  config.rows[i].highlights =
                      IF savedHighlights # <<>> /\ i = lastMatch + 1
                      THEN MatchTags(config.rows[i], userInput)
                      ELSE PlainTags(config.rows[i])

\* The keys of the search prompt that are neither arrows nor end the prompt.
RestartKeys == SearchKeys \ MoveKeys

\* The lines (0-based) whose render contains query.
MatchingLines(c, query) ==
    {i \in 0..(c.numrows - 1) : Contains(c.rows[i + 1].render, query)}

\* C27: a key of the search prompt that is not an arrow searches from the
\* top: the cursor goes to the first line whose render contains the query,
\* at the content column of the first occurrence, wherever the last match
\* was; when no line contains the query the cursor stays.
C27_OtherKeyRestarts ==
    [][\A char \in RestartKeys :
          (FindInput(char) /\ mode' = "find") =>
              LET hits == MatchingLines(config, userInput')
              IN  IF hits = {}
                  THEN CursorKept
                  ELSE \E first \in hits :
                          /\ \A i \in hits : first <= i
                          /\ config'.cy = first
                          /\ config'.cx =
                                 editorRowRxToCx(RowAt(config, first),
                                     Occurrence(RowAt(config, first).render, userInput'))]_vars

\* The direction an arrow key of the search prompt stands for.
ArrowDirection(char) == IF char \in {ARROW_LEFT, ARROW_UP} THEN -1 ELSE 1

\* C28: with a match on line lastMatch, Left or Up goes to the nearest line
\* before it whose render contains the query, from line 0 on to the last
\* line, and Right or Down to the nearest such line after it, from the last
\* line on to line 0; a key that is not an arrow sets the direction forward
\* again.
C28_ArrowsChooseDirection ==
    [][/\ \A char \in MoveKeys :
              (FindInput(char) /\ mode' = "find" /\ savedHighlights # <<>>) =>
                  \E found \in {FirstMatch(config, userInput, lastMatch, ArrowDirection(char))} :
                      /\ found # -1
                      /\ config'.cy = found
                      /\ lastMatch' = found
                      /\ direction' = ArrowDirection(char)
       /\ \A char \in RestartKeys :
              (FindInput(char) /\ mode' = "find") => direction' = 1]_vars

\* C28: Up was pressed on the match in line 0 of a two-line file and the
\* search went backwards round the top to the match in line 1.
C28_Witness ==
    /\ mode = "find"
    /\ config.numrows = 2
    /\ direction = -1
    /\ scanWrapped
    /\ lastMatch = 1
    /\ config.cy = 1
    /\ savedHighlights # <<>>

\* C29: every search session starts with lastMatch = -1 and direction = +1,
\* and an arrow pressed as the first key of the session searches forward from
\* line 0.
C29_SessionStartsFresh ==
    [][/\ FindStart => (lastMatch = -1 /\ direction = 1)
       /\ \A char \in MoveKeys :
              (FindInput(char) /\ mode' = "find" /\ config.numrows > 0
                   /\ savedHighlights = <<>> /\ userInput = <<>>) =>
                  /\ config'.cy = FirstMatch(config, <<>>, -1, 1)
                  /\ direction' = 1]_vars

\* ------------------------------------------------------------------------
\* Properties of the painted rows (Spec)
\* ------------------------------------------------------------------------
\* The colour of a highlight tag.
TagColour(tag) ==
    CASE tag = HL_NORMAL -> 39
      [] tag = HL_NUMBER -> 31
      [] tag = HL_MATCH -> 34

\* The cells of the columns of row that are in the window: the rendered
\* characters from colOffset on, at most screencols of them, each under the
\* colour of its own tag.
WindowCells(c, row) ==
    [k \in 1..MAX(MIN(Len(row.render) - c.colOffset, c.screencols), 0) |->
        <<row.render[c.colOffset + k], TagColour(row.highlights[c.colOffset + k])>>]

\* C30: every row of the file in the window is painted as its rendered
\* characters in the columns from colOffset to colOffset + screencols, each
\* under the colour of its own tag.
C30_RowsPainted ==
    Waiting =>
        \A y \in 0..(config.screenrows - 1) :
            y + config.rowOffset < config.numrows =>
                DrawFileRow(config, y + config.rowOffset) =
                    WindowCells(config, RowAt(config, y + config.rowOffset))

\* ------------------------------------------------------------------------
\* Properties of the end of the program (SpecMain)
\* ------------------------------------------------------------------------
EventAt(name, i) == i \in 1..Len(events) /\ events[i] = name

Happened(name) == \E i \in 1..Len(events) : EventAt(name, i)

Terminated == mode \in {"exited", "panic"}

\* C21: ESC in the prompt for a file name that Ctrl-S opens when the buffer
\* has no name returns to the run loop: main does not end, nothing is written
\* to disk, and the buffer, the cursor, the (empty) file name and the dirty
\* flag are what they were.
C21_EscCancelsSave ==
    [][\A createOk, writeOk, restoreOk \in BOOLEAN :
           SaveAsEnd(ESC, createOk, writeOk, restoreOk) =>
               /\ mode' = "edit"
               /\ disk' = disk
               /\ filename' = filename
               /\ BufferLines(config') = BufferLines(config)
               /\ config'.cx = config.cx
               /\ config'.cy = config.cy
               /\ config'.dirty = config.dirty]_vars

\* A save that os.Create or WriteString fails.
SaveFails(createOk, writeOk, restoreOk) ==
    /\ ~(createOk /\ writeOk)
    /\ \/ SaveKey(createOk, writeOk, restoreOk) /\ Len(filename) > 0
       \/ SaveAsEnd(CR, createOk, writeOk, restoreOk)

\* C22: a failure to open, to create or to write the file does not end main:
\* the run loop waits for the next key, a failed save sets the status message
\* that reports it, and the dirty flag stays set.
C22_PersistenceFailuresRecoverable ==
    [][/\ \A s \in MainStartups : \A restoreOk \in BOOLEAN :
              MainStart(s, TRUE, TRUE, FALSE, restoreOk) /\ s.open => mode' = "edit"
       /\ \A createOk, writeOk, restoreOk \in BOOLEAN :
              SaveFails(createOk, writeOk, restoreOk) =>
                  /\ mode' = "edit"
                  /\ statusMsg' = "cantsave"
                  /\ config.dirty => config'.dirty]_vars

\* C23: when main has ended after enableRawMode, the screen has been cleared
\* and the cursor put at the top left; and unless the call that restores the
\* terminal failed itself, the terminal has its original attributes, and they
\* were restored before any failure was reported.
C23_TerminalRestoredAtExit ==
    Terminated /\ Happened("enableRawMode") =>
        /\ Happened("cleanScreen")
        /\ ~Happened("restoreFailed") =>
               /\ termios = "original"
               /\ \A i \in 1..Len(events) :
                      EventAt("fatal", i) =>
                          \E j \in 1..(i - 1) : EventAt("disableRawMode", j)

\* A save under a typed name fails to create the file while the buffer has
\* unsaved changes: the terminal is restored, the screen cleared, the failure
\* reported.
C23_Witness ==
    /\ mode = "panic"
    /\ termios = "original"
    /\ config.dirty
    /\ Len(filename) > 0
    /\ statusMsg = ""
    /\ disk = "untouched"
    /\ events = <<"enableRawMode", "disableRawMode", "cleanScreen", "fatal">>

\* ------------------------------------------------------------------------
\* Properties of the dirty flag (SpecMain)
\* ------------------------------------------------------------------------
\* The keys that move the cursor without editing.
QuietKeys == MoveKeys \cup {HOME_KEY, END_KEY, PAGE_UP, PAGE_DOWN}

\* A step that moves the cursor, belongs to a search session or is a Ctrl-Q.
QuietStep ==
    \/ \E char \in QuietKeys : \E zeroed, restoreOk \in BOOLEAN : MainKey(char, zeroed, restoreOk)
    \/ MainFindStart
    \/ \E char \in PromptKeys : \E restoreOk \in BOOLEAN :
           MainFindInput(char, restoreOk) \/ MainFindEnd(char, restoreOk)
    \/ \E restoreOk \in BOOLEAN : MainQuit(restoreOk)

\* A Ctrl-S that creates and writes the file.
SaveSucceeds ==
    \E restoreOk \in BOOLEAN :
        \/ SaveKey(TRUE, TRUE, restoreOk) /\ Len(filename) > 0
        \/ SaveAsEnd(CR, TRUE, TRUE, restoreOk)

\* C31: the dirty flag is false when main has loaded the file and after a
\* save that succeeded; it is true after every step of the running editor
\* that changes the lines of the buffer (the content of a line or their
\* number); and cursor keys, Home, End, PageUp, PageDown, the steps of a
\* search session and Ctrl-Q leave the flag and the lines as they are.
C31_DirtyFlag ==
    [][/\ mode = "start" =>
              \A s \in MainStartups : \A restoreOk \in BOOLEAN :
                  MainStart(s, TRUE, TRUE, TRUE, restoreOk) /\ s.open =>
                      ~config'.dirty /\ BufferLines(config') = s.lines
       /\ \/ ~config'.dirty /\ BufferLines(config') = BufferLines(config)
          \/ ~SaveSucceeds
       /\ (mode # "start" /\ BufferLines(config') # BufferLines(config)) => config'.dirty
       /\ \/ config'.dirty = config.dirty /\ BufferLines(config') = BufferLines(config)
          \/ ~QuietStep]_vars

\* A buffer started without a file has been edited, moved in, searched and
\* saved under a typed name: the flag is false again.
C31_Witness ==
    /\ mode = "edit"
    /\ filename = <<DIGIT_1>>
    /\ statusMsg = "written"
    /\ disk = "saved"
    /\ ~config.dirty
    /\ config.numrows = 2
    /\ config.cy = 0
    /\ findsLeft = 0

\* ------------------------------------------------------------------------
\* Properties of the page keys (Spec)
\* ------------------------------------------------------------------------
\* The line a page key pressed in state c ends on.
PageTarget(c, char) ==
    IF char = PAGE_DOWN THEN MIN(c.numrows, c.rowOffset + 2 * c.screenrows - 1)
    ELSE MAX(0, c.rowOffset - c.screenrows)

\* The cursor of c1 is where a page key pressed in state c puts it: on the
\* target line, in a column of that line that is not right of the old one.
PageLands(c, c1, char) ==
    /\ ~c1.fault
    /\ c1.cy = PageTarget(c, char)
    /\ c1.cx >= 0
    /\ c1.cx <= LineLen(c1, c1.cy)
    /\ c1.cx <= c.cx

\* C32: PageDown ends with cy = min(numrows, rowOffset + 2*screenrows - 1) and
\* PageUp with cy = max(0, rowOffset - screenrows), rowOffset being that of
\* the last repaint, and in both cases cx is at most the length of the line
\* the cursor ends on.  It holds of the handler in every state in which the
\* run loop waits for a key, and of every step in which a page key is handled
\* and the screen repainted.
C32_PageKeys ==
    /\ [](mode = "edit" =>
             \A char \in {PAGE_UP, PAGE_DOWN} :
                 PageLands(config, PageMove(config, char), char))
    /\ [][\A char \in {PAGE_UP, PAGE_DOWN} :
              ProcessKey(char, FALSE) => PageLands(config, config', char)]_vars

\* PageDown at the top of the six-line file in a window of three text rows:
\* the cursor is on line 5 = 0 + 2*3 - 1, short of the end of the file.
C32_Witness ==
    /\ mode = "edit"
    /\ config.numrows = 6
    /\ config.screenrows = 3
    /\ config.cy = 5
    /\ config.rowOffset = 3
    /\ config.cx = 0

\* ------------------------------------------------------------------------
\* Properties of the key reader on the input of a terminal (SpecInput)
\* ------------------------------------------------------------------------
IsPrefix(a, b) == Len(a) <= Len(b) /\ a = SubSeq(b, 1, Len(a))

\* C33: the calls of editorReadKey return the keys typed, in the order typed
\* and none twice, and when a call has returned and no byte waits any more,
\* they have returned all of them.
C33_NoInputLost ==
    /\ IsPrefix(returned, typed)
    /\ (rkpc = "done" /\ Len(tty) = 0 /\ Len(rbuf) = 0) => returned = typed

\* ------------------------------------------------------------------------
\* Properties of the indexing (Spec)
\* ------------------------------------------------------------------------
\* Every byte of every stored line is ASCII.
AsciiBuffer(c) ==
    \A i \in 1..Len(c.rows) :
        \A j \in 1..Len(c.rows[i].content) : c.rows[i].content[j] < 128

\* C34: with a buffer of ASCII lines in a window of at least one text row and
\* one column, no key of the run loop or of the search prompt makes the
\* dispatch, the search or the repaint index config.rows, a content, a render
\* or a highlights slice out of range: the program never panics.
C34_NoIndexOutOfRange ==
    (AsciiBuffer(config) /\ config.screenrows >= 1 /\ config.screencols >= 1) =>
        /\ mode # "panic"
        /\ ~config.fault

\* The smallest window, two lines of which the first was made by Enter at the
\* start of the other, scrolled right and down after a search.
C34_Witness ==
    /\ mode = "edit"
    /\ config.screenrows = 1
    /\ config.screencols = 1
    /\ config.numrows = 2
    /\ config.rowOffset = 1
    /\ config.colOffset = 1
    /\ findsLeft = 0
    /\ editsLeft = 0

====
